---- MODULE Spec2Model ----
(***************************************************************************)
(* Model of the Rointe integration: the dual-backend API client            *)
(* (rointesdk/rointe_api.py), the device model (rointesdk/device.py) and   *)
(* the climate entity's derivations (climate.py).                          *)
(*                                                                         *)
(* Temperatures are integers counting twentieths of a degree Celsius, so   *)
(* 0.5 degrees is 10, 7.0 degrees is 140, 20 degrees is 400 and 40.0       *)
(* degrees is 800.  Python's None is the string "None"; an Optional date   *)
(* is the empty tuple (None) or a one-element tuple holding the instant.   *)
(***************************************************************************)
EXTENDS Integers, Sequences, FiniteSets, TLC

VARIABLES
    \* RointeAPI fields
    username, password, api_type,
    auth_token, refresh_token, auth_token_expire_date, local_id,
    nexa_token, nexa_refresh_token,
    firebase_base_url, firebase_ws_url, firebase_app_key, use_nexa_ws,
    nexa_device_cache, nexa_zone_device_map, nexa_device_zone_map,
    nexa_installation_energy,
    \* the wall clock read by datetime.now()
    now,
    \* the last public operation: its name, arguments and the time of the call, the backend
    \* requests it issued in order, the ApiResponse it returned, and the
    \* exception that escaped it instead (None when it returned)
    op, requests, result, raised,
    \* history: the number of public operations called so far
    calls,
    \* history: some initialize_authentication has returned success
    login_succeeded,
    \* a RointeDevice held by the coordinator (NoDevice before it is
    \* constructed) and the exception its last construction or refresh raised
    dev, dev_error,
    \* the threads that run _ensure_valid_auth at the same time: the position
    \* of each, and the token-refresh requests that wait for their response
    callers, in_flight,
    \* one WebSocket RPC, step by step: the calling thread, the worker
    \* thread, the socket, the events and the frames
    ws

sessionVars == <<auth_token, refresh_token, auth_token_expire_date>>
loginVars == <<local_id, nexa_token, nexa_refresh_token, firebase_base_url, firebase_ws_url, firebase_app_key, use_nexa_ws>>
credVars == <<username, password, api_type, login_succeeded>>
cacheVars == <<nexa_device_cache, nexa_zone_device_map, nexa_device_zone_map, nexa_installation_energy>>
opVars == <<op, requests, result, raised, calls>>
apiVars == <<sessionVars, loginVars, credVars, cacheVars, now, opVars>>
devVars == <<dev, dev_error>>
threadVars == <<callers, in_flight, ws>>
vars == <<apiVars, devVars, threadVars>>

-----------------------------------------------------------------------------
(* Bounds of the model *)

\* the clock runs from 0 to MaxTime
MaxTime == 1
\* the lifetime (expiresIn / expires_in) the identity backend grants a token
ExpiresIn == 0
\* the number of public operations a behaviour calls
MaxCalls == 3

-----------------------------------------------------------------------------
(* Values *)

None == "None"

ApiResponse(success, data, error_message) == [success |-> success, data |-> data, error_message |-> error_message]

Request(method, url, body) == [method |-> method, url |-> url, body |-> body]
\* a logged request together with the answer it met
Answered(req, answer) == req @@ [answer |-> answer]

\* the three session fields _ensure_valid_auth and _refresh_token touch
Session == [auth_token |-> auth_token, refresh_token |-> refresh_token, auth_token_expire_date |-> auth_token_expire_date]

\* dict.get(key, default)
Get(d, key, default) == IF key \in DOMAIN d THEN d[key] ELSE default

\* the empty dict
EmptyDict == [k \in {} |-> None]

-----------------------------------------------------------------------------
(* Authentication manager *)

\* what the token-refresh endpoint can answer
RefreshOutcomes == {"ok", "network", "status", "no_token"}

\* a _refresh_token that drops the tokens when the endpoint grants none
RefreshTokenClearing(s, t, o) ==
    LET req == Answered(Request("POST", "AUTH_REFRESH_ENDPOINT", [grant_type |-> "refresh_token", refresh_token |-> s.refresh_token]), o)
    IN IF o = "ok"
       THEN [ok |-> TRUE,
             session |-> [auth_token |-> "id_token", refresh_token |-> "refresh_token", auth_token_expire_date |-> <<t + ExpiresIn>>],
             reqs |-> <<req>>]
       ELSE [ok |-> FALSE, session |-> [auth_token |-> None, refresh_token |-> None, auth_token_expire_date |-> s.auth_token_expire_date],
             reqs |-> <<req>>]

\* _refresh_token: s is the session, t the clock, o the endpoint's answer
RefreshToken(s, t, o) ==
    LET req == Answered(Request("POST", "AUTH_REFRESH_ENDPOINT", [grant_type |-> "refresh_token", refresh_token |-> s.refresh_token]), o)
    IN IF o = "ok"
       THEN [ok |-> TRUE,
             session |-> [auth_token |-> "id_token", refresh_token |-> "refresh_token", auth_token_expire_date |-> <<t + ExpiresIn>>],
             reqs |-> <<req>>]
       ELSE [ok |-> FALSE, session |-> s, reqs |-> <<req>>]

\* the condition of _ensure_valid_auth under which a refresh is attempted
NeedsRefresh(s, t) ==
    \/ s.auth_token = None
    \/ (s.auth_token_expire_date # <<>> /\ s.auth_token_expire_date[1] < t)

\* _ensure_valid_auth
EnsureValidAuth(s, t, o) ==
    IF NeedsRefresh(s, t)
    THEN RefreshToken(s, t, o)
    ELSE [ok |-> TRUE, session |-> s, reqs |-> <<>>]

\* what the legacy verify-password endpoint can answer: 200 with a token,
\* 200 without a token, 400, another non-200 status, a network error
LegacyLoginOutcomes == {"ok", "no_token", "400", "500", "network"}

\* what the Nexa login flow can meet: the REST login's network error or
\* non-200 status or unusable body, then the Firebase federation's network
\* error, non-200 status or missing token, or success
NexaLoginOutcomes == {"ok", "network", "status", "invalid", "fb_network", "fb_status", "fb_no_token"}

NexaLoginRequest == Request("POST", "NEXA_LOGIN_URL", [email |-> username, password |-> password])

NexaFirebaseRequest == Request("POST", "NEXA_FIREBASE_AUTH_URL", [email |-> "user_id@rointe.com", password |-> "user_id"])

\* _login_user_nexa
LoginUserNexa(t, no) ==
    IF no = "network"
    THEN [resp |-> ApiResponse(FALSE, None, "Network error"), reqs |-> <<NexaLoginRequest>>]
    ELSE IF no = "status"
    THEN [resp |-> ApiResponse(FALSE, None, "Nexa login returned status"), reqs |-> <<NexaLoginRequest>>]
    ELSE IF no = "invalid"
    THEN [resp |-> ApiResponse(FALSE, None, "Invalid Nexa login response"), reqs |-> <<NexaLoginRequest>>]
    ELSE IF no = "fb_network"
    THEN [resp |-> ApiResponse(FALSE, None, "Network error"), reqs |-> <<NexaLoginRequest, NexaFirebaseRequest>>]
    ELSE IF no = "fb_status"
    THEN [resp |-> ApiResponse(FALSE, None, "Nexa Firebase auth returned status"), reqs |-> <<NexaLoginRequest, NexaFirebaseRequest>>]
    ELSE IF no = "fb_no_token"
    THEN [resp |-> ApiResponse(FALSE, None, "Nexa Firebase auth returned no token"), reqs |-> <<NexaLoginRequest, NexaFirebaseRequest>>]
    ELSE [resp |-> ApiResponse(TRUE,
                     [auth_token |-> "idToken", expires |-> <<t + ExpiresIn>>,
                      refresh_token |-> "refreshToken", local_id |-> "localId",
                      nexa_token |-> "accessToken", nexa_refresh_token |-> "nexaRefreshToken",
                      firebase_base_url |-> "NEXA_FIREBASE_DEFAULT_URL",
                      firebase_ws_url |-> "NEXA_FIREBASE_WS_URL",
                      firebase_app_key |-> "NEXA_FIREBASE_APP_KEY",
                      use_nexa_ws |-> TRUE],
                     None),
          reqs |-> <<NexaLoginRequest, NexaFirebaseRequest>>]

LegacyLoginRequest == Request("POST", "AUTH_VERIFY_URL", [email |-> username, password |-> password])

\* the failure _login_user reports for a non-200 legacy status
LegacyStatusFailure(lo) ==
    IF lo = "400"
    THEN ApiResponse(FALSE, None, "Authentication returned 400 (Bad Request)")
    ELSE ApiResponse(FALSE, None, "Authentication returned: status")

\* a client that tries the Nexa login after a legacy failure whatever the
\* requested backend
AlwaysFallsBack(at) == TRUE

\* whether _login_user falls back to the Nexa login on a non-200 legacy status
FallsBackToNexa(at) == at # "rointe"

\* _login_user: lo is the legacy endpoint's answer, no the Nexa flow's
LoginUser(t, lo, no) ==
    IF api_type = "nexa"
    THEN LoginUserNexa(t, no)
    ELSE IF lo = "network"
    THEN [resp |-> ApiResponse(FALSE, None, "Network error"), reqs |-> <<LegacyLoginRequest>>]
    ELSE IF lo \in {"400", "500"}
    THEN IF ~FallsBackToNexa(api_type)
         THEN [resp |-> LegacyStatusFailure(lo), reqs |-> <<LegacyLoginRequest>>]
         ELSE LET nexa_response == LoginUserNexa(t, no)
              IN IF nexa_response.resp.success
                 THEN [resp |-> nexa_response.resp, reqs |-> <<LegacyLoginRequest>> \o nexa_response.reqs]
                 ELSE [resp |-> LegacyStatusFailure(lo), reqs |-> <<LegacyLoginRequest>> \o nexa_response.reqs]
    ELSE IF lo = "no_token"
    THEN [resp |-> ApiResponse(FALSE, None, "Authentication returned invalid or empty response"), reqs |-> <<LegacyLoginRequest>>]
    ELSE [resp |-> ApiResponse(TRUE,
                     [auth_token |-> "idToken", expires |-> <<t + ExpiresIn>>,
                      refresh_token |-> "refreshToken", local_id |-> "localId",
                      firebase_base_url |-> "FIREBASE_DEFAULT_URL",
                      firebase_app_key |-> "FIREBASE_APP_KEY",
                      use_nexa_ws |-> FALSE],
                     None),
          reqs |-> <<LegacyLoginRequest>>]

\* credentials that survive the login
KeptCredentials == "user"

\* _clean_credentials: the value both credentials take after a successful login
CleanCredentials == None

\* initialize_authentication
InitializeAuthentication(lo, no) ==
    LET login_data == LoginUser(now, lo, no)
        data == login_data.resp.data
    IN /\ calls < MaxCalls
       /\ calls' = calls + 1
       /\ op' = [name |-> "initialize_authentication", legacy |-> lo, nexa |-> no, at |-> now]
       /\ requests' = login_data.reqs
       /\ raised' = None
       /\ IF ~login_data.resp.success
          THEN /\ auth_token' = None
               /\ refresh_token' = None
               /\ result' = login_data.resp
               /\ UNCHANGED <<auth_token_expire_date, loginVars, username, password, login_succeeded>>
          ELSE /\ auth_token' = data.auth_token
               /\ refresh_token' = data.refresh_token
               /\ auth_token_expire_date' = data.expires
               /\ local_id' = data.local_id
               /\ nexa_token' = Get(data, "nexa_token", None)
               /\ nexa_refresh_token' = Get(data, "nexa_refresh_token", None)
               /\ firebase_base_url' = Get(data, "firebase_base_url", "FIREBASE_DEFAULT_URL")
               /\ firebase_ws_url' = Get(data, "firebase_ws_url", None)
               /\ firebase_app_key' = Get(data, "firebase_app_key", "FIREBASE_APP_KEY")
               /\ use_nexa_ws' = Get(data, "use_nexa_ws", FALSE)
               /\ username' = CleanCredentials
               /\ password' = CleanCredentials
               /\ login_succeeded' = TRUE
               /\ result' = ApiResponse(TRUE, None, None)
       /\ UNCHANGED <<api_type, cacheVars, now, devVars, threadVars>>

\* is_logged_in
IsLoggedIn == auth_token # None /\ refresh_token # None

-----------------------------------------------------------------------------
(* Raw payload values.  A JSON value whose Python type matters is tagged:  *)
(* B(TRUE) is a bool, I(2) an int, S("off") a str.                         *)

B(v) == [t |-> "bool", v |-> v]
I(v) == [t |-> "int", v |-> v]
S(v) == [t |-> "str", v |-> v]

\* int(x): the one-element tuple of the integer, or <<>> when int() raises
\* TypeError or ValueError
PyInt(x) ==
    IF x.t = "bool" THEN <<IF x.v THEN 1 ELSE 0>>
    ELSE IF x.t = "int" THEN <<x.v>>
    ELSE IF x.t = "str" /\ x.v \in {"0", "1", "2"} THEN <<CHOOSE n \in 0..2 : ToString(n) = x.v>>
    ELSE <<>>

\* bool(x)
PyBool(x) ==
    IF x.t = "bool" THEN x.v
    ELSE IF x.t = "int" THEN x.v # 0
    ELSE x.v # ""

\* a power normalization that looks at the status last
NormalizePowerStatusLast(power_val, status) ==
    LET power_int == PyInt(power_val)
    IN IF power_int # <<>> THEN power_int[1] = 2
       ELSE IF status = "off" THEN FALSE
       ELSE PyBool(power_val)

\* the power of update_data: status "off" first, then the integer reading
\* of the power field, then its truth value
NormalizePower(power_val, status) ==
    LET power_int == PyInt(power_val)
    IN IF status = "off" THEN FALSE
       ELSE IF power_int # <<>> THEN power_int[1] = 2
       ELSE PyBool(power_val)

\* str.lower on the product versions the backend sends
Lower(s) == IF s = "V2" THEN "v2" ELSE IF s = "V1" THEN "v1" ELSE s

\* truthiness of an Optional[str]
Truthy(x) == x # None /\ x # ""

-----------------------------------------------------------------------------
(* Schedule evaluator.  A schedule is [shape |-> "list", days |-> tuple],  *)
(* [shape |-> "dict", entries |-> function keyed by the weekday's digits]  *)
(* or [shape |-> "none"] (null or another JSON type); a day entry is       *)
(* [type |-> "str", chars |-> tuple of characters] or [type |-> "null"].   *)

\* the largest day-of-week and hour-of-day the model's clock takes, and the
\* longest day string and schedule list of the model's schedules
MaxDay == 1
MaxHour == 2

Days == 0..MaxDay
Hours == 0..MaxHour

DayStr(chars) == [type |-> "str", chars |-> chars]
NullDay == [type |-> "null"]
ListSchedule(days) == [shape |-> "list", days |-> days]
DictSchedule(entries) == [shape |-> "dict", entries |-> entries]
NoSchedule == [shape |-> "none"]

\* `not self.schedule`
ScheduleFalsy(schedule) ==
    \/ schedule.shape = "none"
    \/ schedule.shape = "list" /\ Len(schedule.days) = 0
    \/ schedule.shape = "dict" /\ DOMAIN schedule.entries = {}

\* the classification of one schedule character
SlotOfChar(c) == IF c = "C" THEN "COMFORT" ELSE IF c = "E" THEN "ECO" ELSE "NONE"

\* an evaluator that counts the hours of the day string from one
SlotOfDayFromOne(day_schedule, hour_index) ==
    IF day_schedule.type # "str" THEN "NONE"
    ELSE IF Len(day_schedule.chars) = 0 THEN "NONE"
    ELSE IF Len(day_schedule.chars) <= hour_index THEN "NONE"
    ELSE IF hour_index = 0 THEN "NONE"
    ELSE IF day_schedule.chars[hour_index] = "C" THEN "COMFORT"
    ELSE IF day_schedule.chars[hour_index] = "E" THEN "ECO"
    ELSE "NONE"

\* the tail of get_current_schedule_mode, from "Validate day_schedule" on
SlotOfDay(day_schedule, hour_index) ==
    IF day_schedule.type # "str" THEN "NONE"
    ELSE IF Len(day_schedule.chars) = 0 THEN "NONE"
    ELSE IF Len(day_schedule.chars) <= hour_index THEN "NONE"
    ELSE SlotOfChar(day_schedule.chars[hour_index + 1])

\* RointeDevice.get_current_schedule_mode, with utils.now() read as
\* day_of_week and hour_index
GetCurrentScheduleMode(schedule, day_of_week, hour_index) ==
    IF ScheduleFalsy(schedule) THEN "NONE"
    ELSE IF schedule.shape = "dict"
    THEN IF ToString(day_of_week) \notin DOMAIN schedule.entries
         THEN "NONE"
         ELSE SlotOfDay(schedule.entries[ToString(day_of_week)], hour_index)
    ELSE IF Len(schedule.days) <= day_of_week
         THEN "NONE"
         ELSE SlotOfDay(schedule.days[day_of_week + 1], hour_index)

\* len(schedule) of a schedule that is not falsy
ScheduleLen(schedule) ==
    IF schedule.shape = "list" THEN Len(schedule.days) ELSE Cardinality(DOMAIN schedule.entries)

\* _get_schedule_status, with utils.now() read as day_of_week and
\* hour_index: [value, raised]
GetScheduleStatus(schedule, day_of_week, hour_index) ==
    IF ScheduleFalsy(schedule) \/ ScheduleLen(schedule) <= day_of_week
    THEN [value |-> "unknown", raised |-> None]
    ELSE IF schedule.shape = "list"
    THEN [value |-> None, raised |-> "AttributeError"]
    ELSE LET day_schedule == Get(schedule.entries, ToString(day_of_week), DayStr(<<>>))
         IN IF day_schedule.type # "str" THEN [value |-> None, raised |-> "TypeError"]
            ELSE IF Len(day_schedule.chars) <= hour_index THEN [value |-> "unknown", raised |-> None]
            ELSE LET mode_char == day_schedule.chars[hour_index + 1]
                 IN [value |-> IF mode_char = "C" THEN "comfort"
                               ELSE IF mode_char = "E" THEN "eco"
                               ELSE IF mode_char = "O" THEN "off"
                               ELSE "unknown",
                     raised |-> None]

-----------------------------------------------------------------------------
(* Device model *)

NoDevice == [id |-> None]

\* user-mode settings read from the payload whatever the product version
UserModeFieldsOfAnyVersion(d, data) ==
    [um_max_temp |-> Get(data, "um_max_temp", 0),
     um_min_temp |-> Get(data, "um_min_temp", 0),
     user_mode |-> Get(data, "user_mode", FALSE)]

\* the user-mode settings update_data stores: those of the payload only for
\* a V2 radiator
UserModeFields(d, data) ==
    IF d.product_version = "v2"
    THEN [um_max_temp |-> Get(data, "um_max_temp", 0),
          um_min_temp |-> Get(data, "um_min_temp", 0),
          user_mode |-> Get(data, "user_mode", FALSE)]
    ELSE [um_max_temp |-> 0, um_min_temp |-> 0, user_mode |-> FALSE]

\* RointeDevice.update_data: d is the device (its id, type, product_version
\* and serialnumber set by __init__), device_info the payload; the result is
\* [error, dev]
UpdateData(d, device_info, energy_data, latest_fw) ==
    IF "data" \notin DOMAIN device_info
    THEN [error |-> "KeyError", dev |-> d]
    ELSE
    LET data == device_info.data
        firmware_data == Get(device_info, "firmware", EmptyDict)
        power_val == Get(data, "power", B(FALSE))
        status == Get(data, "status", S("none")).v
        mode_val == Get(data, "mode", S("manual"))
        temp == Get(data, "temp", 0)
    IN [error |-> None,
        dev |-> [id |-> d.id,
                 type |-> d.type,
                 product_version |-> d.product_version,
                 serialnumber |-> d.serialnumber,
                 raw_data |-> data,
                 name |-> Get(data, "name", ""),
                 nominal_effective_power |-> Get(data, "nominal_effective_power", Get(data, "nominal_power", 0)),
                 power |-> NormalizePower(power_val, status),
                 preset |-> status,
                 mode |-> IF PyInt(mode_val) = <<0>> THEN "manual"
                          ELSE IF PyInt(mode_val) = <<1>> THEN "auto"
                          ELSE mode_val.v,
                 temp |-> temp,
                 temp_probe |-> Get(data, "temp_probe", temp),
                 comfort_temp |-> Get(data, "comfort", temp),
                 eco_temp |-> Get(data, "eco", temp),
                 ice_temp |-> Get(data, "ice", temp),
                 um_max_temp |-> UserModeFields(d, data).um_max_temp,
                 um_min_temp |-> UserModeFields(d, data).um_min_temp,
                 user_mode |-> UserModeFields(d, data).user_mode,
                 ice_mode |-> Get(data, "ice_mode", FALSE),
                 schedule |-> Get(data, "schedule", ListSchedule(<<>>)),
                 status_warming |-> Get(data, "status_warming", 0),
                 energy_data |-> energy_data,
                 firmware_version |-> IF DOMAIN firmware_data # {}
                                      THEN Get(firmware_data, "firmware_version_device", Get(firmware_data, "firmware_version", ""))
                                      ELSE None,
                 hardware_version |-> IF DOMAIN firmware_data # {}
                                      THEN Get(firmware_data, "hardware_version", "")
                                      ELSE None,
                 latest_firmware_version |-> latest_fw,
                 hass_available |-> TRUE]]

\* the keys RointeDevice.__init__ reads with a subscript before update_data
InitKeysPresent(device_info) ==
    /\ "data" \in DOMAIN device_info
    /\ "type" \in DOMAIN device_info.data
    /\ "product_version" \in DOMAIN device_info.data
    /\ "serialnumber" \in DOMAIN device_info

\* RointeDevice.__init__: [error, dev]; a KeyError leaves no device
NewDevice(device_id, device_info, energy_data, latest_fw) ==
    IF ~InitKeysPresent(device_info)
    THEN [error |-> "KeyError", dev |-> NoDevice]
    ELSE UpdateData([id |-> device_id,
                     type |-> device_info.data.type,
                     product_version |-> Lower(device_info.data.product_version),
                     serialnumber |-> device_info.serialnumber],
                    device_info, energy_data, latest_fw)

\* a target that falls back to the set-point outside Comfort and Eco slots
TargetWithSetpointFallback(d, day_of_week, hour_index) ==
    IF d.mode = "manual" THEN d.temp
    ELSE LET schedule_mode == GetCurrentScheduleMode(d.schedule, day_of_week, hour_index)
         IN IF schedule_mode = "COMFORT" THEN d.comfort_temp
            ELSE IF schedule_mode = "ECO" THEN d.eco_temp
            ELSE d.temp

\* RointeDevice.get_effective_target_temperature at the given day and hour
GetEffectiveTargetTemperature(d, day_of_week, hour_index) ==
    IF d.mode = "manual" THEN d.temp
    ELSE LET schedule_mode == GetCurrentScheduleMode(d.schedule, day_of_week, hour_index)
         IN IF schedule_mode = "COMFORT" THEN d.comfort_temp
            ELSE IF schedule_mode = "ECO" THEN d.eco_temp
            ELSE d.ice_temp

\* RointeDevice.user_mode_supported
UserModeSupported(d) == d.product_version = "v2"

\* an action that trusts the statusWarming the device reports
HvacActionFromStatus(d, day_of_week, hour_index) ==
    IF ~d.power THEN "OFF"
    ELSE IF d.status_warming = 2 THEN "HEATING"
    ELSE "IDLE"

\* RointeHaClimate.hvac_action at the given day and hour
HvacAction(d, day_of_week, hour_index) ==
    IF ~d.power THEN "OFF"
    ELSE IF d.temp_probe >= GetEffectiveTargetTemperature(d, day_of_week, hour_index) THEN "IDLE"
    ELSE "HEATING"

\* RointeDevice.heating
Heating(d) == d.status_warming = 2

\* the value_fn of the "heating" entry of BINARY_SENSOR_DESCRIPTIONS
HeatingBinarySensor(d) == d.status_warming = 2

\* _get_heating_status at the given day and hour
GetHeatingStatus(d, day_of_week, hour_index) ==
    IF d.temp_probe >= GetEffectiveTargetTemperature(d, day_of_week, hour_index) THEN "idle"
    ELSE IF d.status_warming = 2 THEN "heating"
    ELSE IF d.status_warming = 1 THEN "maintaining"
    ELSE "idle"

\* the effective_power of the energy reading a poll attached to the device:
\* none, a reading of 0 W (the first poll), a reading of 600 W (later polls)
EnergyEffectivePower(energy_data) ==
    IF energy_data = None THEN 0
    ELSE IF energy_data = "energy1" THEN 0
    ELSE 600

\* _get_effective_power at the given day and hour, in half watts
GetEffectivePower(d, day_of_week, hour_index) ==
    IF ~d.power THEN 0
    ELSE IF d.temp_probe >= GetEffectiveTargetTemperature(d, day_of_week, hour_index) THEN 0
    ELSE IF EnergyEffectivePower(d.energy_data) > 0 THEN 2 * EnergyEffectivePower(d.energy_data)
    ELSE IF d.status_warming = 2 THEN 2 * d.nominal_effective_power
    ELSE IF d.status_warming = 1 THEN d.nominal_effective_power
    ELSE 0

\* RointeHaClimate.hvac_mode
HvacMode(d) ==
    IF ~d.power THEN "off"
    ELSE IF d.mode = "auto" THEN "auto"
    ELSE "heat"

-----------------------------------------------------------------------------
(* Backend API client: transports *)

\* what a legacy REST request can meet: a 200 answer, a non-200 answer, a
\* RequestException
HttpOutcomes == {"ok", "rejected", "network"}

\* _send_patch_request: [resp, reqs]
SendPatchRequest(body, t, po) ==
    LET req == Answered(Request("PATCH", "FIREBASE_DEVICE_DATA_PATH_BY_ID", body @@ [last_sync_datetime_app |-> t]), po)
    IN IF po = "network"
       THEN [resp |-> ApiResponse(FALSE, None, "Communications error"), reqs |-> <<req>>]
       ELSE IF po = "rejected"
       THEN [resp |-> ApiResponse(FALSE, None, None), reqs |-> <<req>>]
       ELSE [resp |-> ApiResponse(TRUE, None, None), reqs |-> <<req>>]

\* _get_nexa_device_key
GetNexaDeviceKey(device) ==
    IF Truthy(device.serialnumber) THEN device.serialnumber
    ELSE IF device.id \in DOMAIN nexa_device_cache /\ Truthy(nexa_device_cache[device.id].serialNumber)
    THEN nexa_device_cache[device.id].serialNumber
    ELSE device.id

\* the keys _write_via_websocket copies into fields_to_write, in its order
WsNumericKeys == <<"temp", "comfort", "eco", "ice">>

\* fields_to_write of _write_via_websocket: <<field, value>> pairs
FieldsToWrite(data) ==
    LET present(k) == k \in DOMAIN data
        numeric == [i \in 1..Len(WsNumericKeys) |-> <<WsNumericKeys[i], Get(data, WsNumericKeys[i], 0)>>]
    IN SelectSeq(numeric, LAMBDA f : present(f[1]))
       \o (IF present("status") /\ data.status \in {"off", "none"} THEN <<(<<"status", data.status>>)>> ELSE <<>>)
       \o (IF present("mode") THEN <<(<<"mode", data.mode>>)>> ELSE <<>>)
       \o (IF present("power") THEN <<(<<"power", data.power>>)>> ELSE <<>>)

\* the frames on_open sends: the auth frame with request id 2, then one put
\* frame per field with the following request ids
WsWriteFrames(device_id, fields, token) ==
    <<[r |-> 2, a |-> "auth", p |-> None, d |-> token]>>
    \o [i \in 1..Len(fields) |-> [r |-> 2 + i, a |-> "p", p |-> <<"devices", device_id, "data", fields[i][1]>>, d |-> fields[i][2]]]

\* the most frames a write gets out before ws.send raises
MaxSendErrorAt == 1

\* what a WebSocket write can meet: the connection is not open within the
\* connect timeout; ws.send raises after n frames; the transport reports an
\* error; every frame is acknowledged "ok"; no acknowledgement arrives
\* within the response timeout; the inbound frames are not JSON or carry no
\* request id; a put is acknowledged with an error status
WsWriteOutcomes ==
    {[kind |-> k, n |-> 0] : k \in {"connect_timeout", "transport_error", "acked", "ack_timeout", "ack_malformed", "ack_rejected"}}
    \cup {[kind |-> "send_error", n |-> n] : n \in 0..MaxSendErrorAt}

Min(a, b) == IF a < b THEN a ELSE b

\* results of _write_via_websocket: request id -> acknowledged status
WsResults(frames, wo) ==
    IF wo.kind = "acked" THEN [i \in 1..Len(frames) |-> "ok"]
    ELSE IF wo.kind = "ack_rejected" THEN [i \in 1..Len(frames) |-> IF i = 1 THEN "ok" ELSE "permission_denied"]
    ELSE <<>>

\* _write_via_websocket: [resp, reqs, session]
WriteViaWebsocket(s, t, ro, device_id, data, wo) ==
    LET a == EnsureValidAuth(s, t, ro)
        fields == FieldsToWrite(data)
        frames == WsWriteFrames(device_id, fields, a.session.auth_token)
        rpc(sent) == Answered(Request("WS_WRITE", firebase_ws_url, sent), wo.kind)
    IN IF ~a.ok
       THEN [resp |-> ApiResponse(FALSE, None, "Invalid authentication."), reqs |-> a.reqs, session |-> a.session]
       ELSE IF ~Truthy(firebase_ws_url)
       THEN [resp |-> ApiResponse(FALSE, None, "No WebSocket URL configured."), reqs |-> a.reqs, session |-> a.session]
       ELSE IF Len(fields) = 0
       THEN [resp |-> ApiResponse(TRUE, None, None), reqs |-> a.reqs, session |-> a.session]
       ELSE IF wo.kind = "connect_timeout"
       THEN [resp |-> ApiResponse(FALSE, None, "Connection timeout"), reqs |-> a.reqs \o <<rpc(<<>>)>>, session |-> a.session]
       ELSE IF wo.kind = "send_error"
       THEN [resp |-> ApiResponse(FALSE, None, "send error"),
             reqs |-> a.reqs \o <<rpc(SubSeq(frames, 1, Min(wo.n, Len(frames) - 1)))>>, session |-> a.session]
       ELSE IF wo.kind = "transport_error"
       THEN [resp |-> ApiResponse(FALSE, None, "transport error"), reqs |-> a.reqs \o <<rpc(frames)>>, session |-> a.session]
       ELSE [resp |-> ApiResponse(TRUE, WsResults(frames, wo), None), reqs |-> a.reqs \o <<rpc(frames)>>, session |-> a.session]

-----------------------------------------------------------------------------
(* Backend API client: device writes.  Each returns [resp, reqs, session]. *)

InvalidAuthentication(a) == [resp |-> ApiResponse(FALSE, None, "Invalid authentication."), reqs |-> a.reqs, session |-> a.session]

\* the result of an operation that ends with one PATCH
AfterPatch(a, patch) == [resp |-> patch.resp, reqs |-> a.reqs \o patch.reqs, session |-> a.session]

\* the result of an operation that ends with a WebSocket write
AfterWrite(a, write) == [resp |-> write.resp, reqs |-> a.reqs \o write.reqs, session |-> write.session]

\* set_device_temp
set_device_temp(device, new_temp, ro, po, wo) ==
    LET a == EnsureValidAuth(Session, now, ro)
    IN IF ~a.ok THEN InvalidAuthentication(a)
       ELSE IF use_nexa_ws
       THEN AfterWrite(a, WriteViaWebsocket(a.session, now, ro, GetNexaDeviceKey(device),
                                            [temp |-> new_temp, mode |-> 0, power |-> 2, status |-> "none"], wo))
       ELSE AfterPatch(a, SendPatchRequest([temp |-> new_temp, mode |-> "manual", power |-> TRUE], now, po))

Presets == {"comfort", "eco", "ice"}

\* the preset temperature set_device_preset sends
PresetTemp(device, preset_mode) ==
    IF preset_mode = "comfort" THEN device.comfort_temp
    ELSE IF preset_mode = "eco" THEN device.eco_temp
    ELSE device.ice_temp

\* set_device_preset
set_device_preset(device, preset_mode, ro, po, wo) ==
    LET a == EnsureValidAuth(Session, now, ro)
    IN IF ~a.ok THEN InvalidAuthentication(a)
       ELSE IF use_nexa_ws
       THEN IF preset_mode \notin Presets
            THEN [resp |-> ApiResponse(FALSE, None, "Invalid preset."), reqs |-> a.reqs, session |-> a.session]
            ELSE AfterWrite(a, WriteViaWebsocket(a.session, now, ro, GetNexaDeviceKey(device),
                                                 [temp |-> PresetTemp(device, preset_mode), mode |-> 0, power |-> 2, status |-> "none"], wo))
       ELSE IF preset_mode \in Presets
       THEN AfterPatch(a, SendPatchRequest([power |-> TRUE, mode |-> "manual", temp |-> PresetTemp(device, preset_mode), status |-> preset_mode], now, po))
       ELSE AfterPatch(a, SendPatchRequest(EmptyDict, now, po))

\* the neutral temperature (20 degrees) set_device_mode writes
NeutralTemp == 400

\* a two-step sequence that sends its second PATCH whatever the first met
TwoPatchesUnchecked(body1, body2, t, po1, po2) ==
    LET set_mode_response == SendPatchRequest(body1, t, po1)
        second == SendPatchRequest(body2, t, po2)
    IN [resp |-> second.resp, reqs |-> set_mode_response.reqs \o second.reqs]

\* the second PATCH of a two-step legacy sequence is sent only when the
\* first one succeeded: [resp, reqs]
TwoPatches(body1, body2, t, po1, po2) ==
    LET set_mode_response == SendPatchRequest(body1, t, po1)
        second == SendPatchRequest(body2, t, po2)
    IN IF ~set_mode_response.resp.success
       THEN set_mode_response
       ELSE [resp |-> second.resp, reqs |-> set_mode_response.reqs \o second.reqs]

\* the temperature set_device_mode sends before switching to auto
AutoTemp(device, day_of_week, hour_index) ==
    LET current_mode == GetCurrentScheduleMode(device.schedule, day_of_week, hour_index)
    IN IF current_mode = "COMFORT" THEN device.comfort_temp
       ELSE IF current_mode = "ECO" THEN device.eco_temp
       ELSE IF device.ice_mode THEN device.ice_temp
       ELSE NeutralTemp

\* set_device_mode without the neutral-temperature step before power-off
SetDeviceModeDirectOff(device, hvac_mode, day_of_week, hour_index, t, po1, po2) ==
    IF hvac_mode = "off"
    THEN SendPatchRequest([power |-> FALSE, mode |-> device.mode, status |-> "off"], t, po1)
    ELSE IF hvac_mode = "heat"
    THEN TwoPatches([temp |-> device.comfort_temp], [mode |-> "manual", power |-> TRUE, status |-> "none"], t, po1, po2)
    ELSE IF hvac_mode = "auto"
    THEN TwoPatches([temp |-> AutoTemp(device, day_of_week, hour_index)], [mode |-> "auto", power |-> TRUE], t, po1, po2)
    ELSE [resp |-> ApiResponse(FALSE, None, "Invalid HVAC Mode."), reqs |-> <<>>]

\* the legacy branch of set_device_mode: [resp, reqs]
SetDeviceModeLegacy(device, hvac_mode, day_of_week, hour_index, t, po1, po2) ==
    IF hvac_mode = "off"
    THEN IF device.mode = "auto"
         THEN SendPatchRequest([power |-> FALSE, mode |-> "auto", status |-> "off"], t, po1)
         ELSE TwoPatches([temp |-> NeutralTemp], [power |-> FALSE, mode |-> "manual", status |-> "off"], t, po1, po2)
    ELSE IF hvac_mode = "heat"
    THEN TwoPatches([temp |-> device.comfort_temp], [mode |-> "manual", power |-> TRUE, status |-> "none"], t, po1, po2)
    ELSE IF hvac_mode = "auto"
    THEN TwoPatches([temp |-> AutoTemp(device, day_of_week, hour_index)], [mode |-> "auto", power |-> TRUE], t, po1, po2)
    ELSE [resp |-> ApiResponse(FALSE, None, "Invalid HVAC Mode."), reqs |-> <<>>]

\* the body the Nexa branch of set_device_mode writes
NexaModeBody(device, hvac_mode) ==
    IF hvac_mode = "off" THEN [power |-> 1, mode |-> 0, status |-> "off"]
    ELSE IF hvac_mode = "heat" THEN [temp |-> device.comfort_temp, mode |-> 0, power |-> 2, status |-> "none"]
    ELSE [mode |-> 1, power |-> 2, status |-> "none"]

HvacModes == {"off", "heat", "auto"}

\* set_device_mode
set_device_mode(device, hvac_mode, day_of_week, hour_index, ro, po1, po2, wo) ==
    LET a == EnsureValidAuth(Session, now, ro)
    IN IF ~a.ok THEN InvalidAuthentication(a)
       ELSE IF use_nexa_ws
       THEN IF hvac_mode \in HvacModes
            THEN AfterWrite(a, WriteViaWebsocket(a.session, now, ro, GetNexaDeviceKey(device), NexaModeBody(device, hvac_mode), wo))
            ELSE [resp |-> ApiResponse(FALSE, None, "Invalid HVAC Mode."), reqs |-> a.reqs, session |-> a.session]
       ELSE AfterPatch(a, SetDeviceModeLegacy(device, hvac_mode, day_of_week, hour_index, now, po1, po2))

-----------------------------------------------------------------------------
(* Backend API client: reads.  Each returns [resp, reqs, session] and,     *)
(* when an exception escapes it, [raised].                                 *)

\* what a legacy GET can meet: a 200 answer with the data, a 200 answer
\* with an empty body, a 200 answer without the keys the code subscripts,
\* a non-200 answer, a RequestException
ReadOutcomes == {"ok", "empty", "malformed", "rejected", "network"}

Returned(a, resp, reqs) == [resp |-> resp, reqs |-> a.reqs \o reqs, session |-> a.session, raised |-> None]

Raises(a, e, reqs) == [resp |-> None, reqs |-> a.reqs \o reqs, session |-> a.session, raised |-> e]

\* get_local_id
get_local_id(ro, go) ==
    LET a == EnsureValidAuth(Session, now, ro)
        req == <<Request("POST", "AUTH_ACCT_INFO_URL", [idToken |-> a.session.auth_token])>>
    IN IF ~a.ok THEN Returned(a, ApiResponse(FALSE, None, "Invalid authentication."), <<>>)
       ELSE IF go = "network" THEN Returned(a, ApiResponse(FALSE, None, "Network error"), req)
       ELSE IF go = "rejected" THEN Returned(a, ApiResponse(FALSE, None, "get_local_id() returned status"), req)
       ELSE IF go \in {"empty", "malformed"} THEN Raises(a, "KeyError", req)
       ELSE Returned(a, ApiResponse(TRUE, "localId", None), req)

\* the header templates of the Nexa REST requests
HeaderTemplates == <<"token-header", "bearer", "token", "x-access-token", "bearer+x-access-token", "token+x-access-token">>

\* tokens_to_try of the Nexa REST requests
TokensToTry(s) ==
    (IF Truthy(nexa_token) THEN <<"nexa">> ELSE <<>>)
    \o (IF Truthy(nexa_refresh_token) THEN <<"nexa_refresh">> ELSE <<>>)
    \o (IF Truthy(s.auth_token) THEN <<"firebase">> ELSE <<>>)

\* the i-th request of the token and header loops
NexaTry(url, tokens, i) ==
    Request("GET", url, [token |-> tokens[((i - 1) \div Len(HeaderTemplates)) + 1], headers |-> HeaderTemplates[((i - 1) % Len(HeaderTemplates)) + 1]])

\* the most 401 answers the model lets precede another answer
MaxUnauthorized == 1

\* what the Nexa REST loops can meet: n401 answers 401, then a 200 answer
\* with the data ("ok"), with an empty result ("empty"), with a body that is
\* not JSON ("invalid_json") or of an unknown shape ("bad_format"), a
\* non-200 answer ("rejected"), a RequestException ("network"); or every
\* token and header variant is answered 401 ("401")
NexaRestOutcomes ==
    {[n401 |-> n, final |-> f] : n \in 0..MaxUnauthorized, f \in {"ok", "empty", "invalid_json", "bad_format", "rejected", "network"}}
    \cup {[n401 |-> 0, final |-> "401"]}

\* the requests the token and header loops send
NexaRestRequests(url, tokens, no) ==
    LET total == Len(tokens) * Len(HeaderTemplates)
        sent == IF no.final = "401" THEN total ELSE Min(no.n401 + 1, total)
    IN [i \in 1..sent |-> NexaTry(url, tokens, i)]

\* the failure both Nexa REST readers return for these answers
NexaRestFailure(final) ==
    IF final = "network" THEN ApiResponse(FALSE, None, "Network error")
    ELSE IF final \in {"rejected", "401"} THEN ApiResponse(FALSE, None, "Nexa request returned status")
    ELSE IF final = "invalid_json" THEN ApiResponse(FALSE, None, "Nexa request invalid JSON")
    ELSE ApiResponse(FALSE, None, "Nexa request invalid format")

\* _get_installations_nexa: [resp, reqs]
GetInstallationsNexa(s, no) ==
    LET tokens == TokensToTry(s)
        reqs == NexaRestRequests("NEXA_INSTALLATIONS_URL", tokens, no)
    IN IF Len(tokens) = 0 THEN [resp |-> ApiResponse(FALSE, None, "Nexa token missing"), reqs |-> <<>>]
       ELSE IF no.final = "ok" THEN [resp |-> ApiResponse(TRUE, "installations", None), reqs |-> reqs]
       ELSE IF no.final = "empty" THEN [resp |-> ApiResponse(FALSE, None, "Nexa get_installations empty result"), reqs |-> reqs]
       ELSE [resp |-> NexaRestFailure(no.final), reqs |-> reqs]

\* get_installations
get_installations(ro, go, no) ==
    LET a == EnsureValidAuth(Session, now, ro)
        nexa_response == GetInstallationsNexa(a.session, no)
        req == <<Request("GET", "FIREBASE_INSTALLATIONS_PATH", [auth |-> a.session.auth_token, equalTo |-> local_id])>>
    IN IF ~a.ok THEN Returned(a, ApiResponse(FALSE, None, "Invalid authentication."), <<>>)
       ELSE IF use_nexa_ws THEN Returned(a, nexa_response.resp, nexa_response.reqs)
       ELSE IF go = "network" THEN Returned(a, ApiResponse(FALSE, None, "Network error"), req)
       ELSE IF go = "rejected" THEN Returned(a, ApiResponse(FALSE, None, "get_installations() returned status"), req)
       ELSE IF go = "empty" THEN Returned(a, ApiResponse(FALSE, None, "No Rointe installations found."), req)
       ELSE IF go = "malformed" THEN Raises(a, "KeyError", req)
       ELSE Returned(a, ApiResponse(TRUE, "installations", None), req)

\* the serials of one Nexa zone's devices: serialNumber, or else mac
RECURSIVE ZoneSerials(_)
ZoneSerials(devices) ==
    IF Len(devices) = 0 THEN <<>>
    ELSE LET d == Head(devices)
             serial == IF Truthy(Get(d, "serialNumber", None)) THEN d.serialNumber ELSE Get(d, "mac", None)
         IN (IF Truthy(serial) THEN <<serial>> ELSE <<>>) \o ZoneSerials(Tail(devices))

\* the entries of dm for the given serials set to zone_id
AssignZone(dm, serials, zone_id) ==
    [x \in DOMAIN dm \cup {serials[i] : i \in 1..Len(serials)} |->
        IF x \in {serials[i] : i \in 1..Len(serials)} THEN zone_id ELSE dm[x]]

\* the loop of _build_zone_device_map over the zones: maps is
\* [zone_device, device_zone]
RECURSIVE BuildZones(_, _)
BuildZones(zones, maps) ==
    IF Len(zones) = 0 THEN maps
    ELSE LET zone == Head(zones)
             zone_id == Get(zone, "id", None)
             device_serials == ZoneSerials(Get(zone, "devices", <<>>))
         IN IF ~Truthy(zone_id)
            THEN BuildZones(Tail(zones), maps)
            ELSE BuildZones(Tail(zones),
                            [zone_device |-> (zone_id :> device_serials) @@ maps.zone_device,
                             device_zone |-> AssignZone(maps.device_zone, device_serials, zone_id)])

\* _build_zone_device_map: the two maps after it
BuildZoneDeviceMap(installation_data) ==
    BuildZones(Get(installation_data, "zones", <<>>), [zone_device |-> nexa_zone_device_map, device_zone |-> nexa_device_zone_map])

\* the installations the Nexa backend answers with
NexaInstallations ==
    {[zones |-> <<[id |-> "zoneA", devices |-> <<[id |-> "dev1", serialNumber |-> "SN1"], [id |-> "dev2", serialNumber |-> "SN2"]>>],
                  [id |-> "zoneB", devices |-> <<[id |-> "dev3", mac |-> "SN3"]>>]>>],
     [zones |-> <<[id |-> "zoneA", devices |-> <<[id |-> "dev2", serialNumber |-> "SN2"]>>],
                  [id |-> "zoneB", devices |-> <<[id |-> "dev1", serialNumber |-> "SN1"]>>]>>],
     [zones |-> <<[id |-> "zoneB", devices |-> <<[id |-> "dev3", serialNumber |-> "SN3"]>>]>>],
     [zones |-> <<[id |-> "zoneA", devices |-> <<[id |-> "dev3", serialNumber |-> "SN3"]>>]>>],
     [zones |-> <<[id |-> "zoneA", devices |-> <<[id |-> "dev1", name |-> "Hall"]>>,
                   rooms |-> <<[id |-> "room1", devices |-> <<[id |-> "dev3", serialNumber |-> "SN3"], [id |-> "dev1", name |-> "Hall"]>>]>>],
                  [id |-> "zoneB", devices |-> <<[id |-> "dev3", serialNumber |-> "SN3"]>>]>>],
     [name |-> "home"]}

\* _get_installation_by_id_nexa: [resp, reqs, maps]
GetInstallationByIdNexa(s, no, data) ==
    LET tokens == TokensToTry(s)
        reqs == NexaRestRequests("NEXA_INSTALLATIONS_URL/id", tokens, no)
        kept == [zone_device |-> nexa_zone_device_map, device_zone |-> nexa_device_zone_map]
    IN IF Len(tokens) = 0 THEN [resp |-> ApiResponse(FALSE, None, "Nexa token missing"), reqs |-> <<>>, maps |-> kept]
       ELSE IF no.final \in {"ok", "empty"} THEN [resp |-> ApiResponse(TRUE, data, None), reqs |-> reqs, maps |-> BuildZoneDeviceMap(data)]
       ELSE [resp |-> NexaRestFailure(no.final), reqs |-> reqs, maps |-> kept]

\* get_installation_by_id: [resp, reqs, session, raised, maps]
get_installation_by_id(ro, go, no, data) ==
    LET a == EnsureValidAuth(Session, now, ro)
        nexa_response == GetInstallationByIdNexa(a.session, no, data)
        kept == [zone_device |-> nexa_zone_device_map, device_zone |-> nexa_device_zone_map]
        req == <<Request("GET", "FIREBASE_INSTALLATIONS_PATH", [auth |-> a.session.auth_token, equalTo |-> local_id])>>
    IN IF ~a.ok THEN Returned(a, ApiResponse(FALSE, None, "Invalid authentication."), <<>>) @@ [maps |-> kept]
       ELSE IF use_nexa_ws THEN Returned(a, nexa_response.resp, nexa_response.reqs) @@ [maps |-> nexa_response.maps]
       ELSE IF go = "network" THEN Returned(a, ApiResponse(FALSE, None, "Network error"), req) @@ [maps |-> kept]
       ELSE IF go = "rejected" THEN Returned(a, ApiResponse(FALSE, None, "get_installation_by_id() returned status"), req) @@ [maps |-> kept]
       ELSE IF go = "empty" THEN Returned(a, ApiResponse(FALSE, None, "No Rointe installation found."), req) @@ [maps |-> kept]
       ELSE IF go = "malformed" THEN Raises(a, "ValueError", req) @@ [maps |-> kept]
       ELSE Returned(a, ApiResponse(TRUE, "installation", None), req) @@ [maps |-> kept]

\* dev.get("id") or dev.get("_id") or dev.get("uuid") or dev.get("device_id")
DeviceIdOf(entry) ==
    IF Truthy(Get(entry, "id", None)) THEN entry["id"]
    ELSE IF Truthy(Get(entry, "_id", None)) THEN entry["_id"]
    ELSE IF Truthy(Get(entry, "uuid", None)) THEN entry["uuid"]
    ELSE Get(entry, "device_id", None)

\* d.get(k1) or d.get(k2) or ... over list values: the first non-empty one
RECURSIVE FirstNonEmpty(_, _)
FirstNonEmpty(d, keys) ==
    IF Len(keys) = 0 THEN <<>>
    ELSE IF Len(Get(d, Head(keys), <<>>)) > 0 THEN d[Head(keys)]
    ELSE FirstNonEmpty(d, Tail(keys))

\* _extract_devices_any over a list of zone mappings whose device blocks are
\* lists: the device entries that carry an id, in the order they are met
RECURSIVE ExtractDevicesAny(_)
ExtractDevicesAny(zone_list) ==
    IF Len(zone_list) = 0 THEN <<>>
    ELSE LET zone_data == Head(zone_list)
             devices_block == FirstNonEmpty(zone_data, <<"devices", "radiators", "items">>)
             sub_zones == FirstNonEmpty(zone_data, <<"zones", "rooms">>)
         IN SelectSeq(devices_block, LAMBDA entry : Truthy(DeviceIdOf(entry)))
            \o ExtractDevicesAny(sub_zones)
            \o ExtractDevicesAny(Tail(zone_list))

\* _cache_nexa_device for each discovered entry in turn
RECURSIVE CacheNexaDevices(_, _)
CacheNexaDevices(cache, devs) ==
    IF Len(devs) = 0 THEN cache
    ELSE LET device_id == DeviceIdOf(Head(devs))
             cached == [id |-> device_id, name |-> Get(Head(devs), "name", None), serialNumber |-> Get(Head(devs), "serialNumber", None)]
         IN CacheNexaDevices(IF device_id \in DOMAIN cache THEN cache ELSE (device_id :> cached) @@ cache, Tail(devs))

\* list(dict.fromkeys(devices)): the first occurrence of each element
RECURSIVE UniqueFrom(_, _)
UniqueFrom(devices, seen) ==
    IF Len(devices) = 0 THEN <<>>
    ELSE IF Head(devices) \in seen THEN UniqueFrom(Tail(devices), seen)
    ELSE <<Head(devices)>> \o UniqueFrom(Tail(devices), seen \cup {Head(devices)})

\* _extract_devices over the zones of a legacy installation, a zone being
\* [devices |-> the keys of its device mapping, zones |-> its sub-zones]
RECURSIVE ExtractDevices(_)
ExtractDevices(zones) ==
    IF Len(zones) = 0 THEN <<>>
    ELSE Get(Head(zones), "devices", <<>>)
         \o ExtractDevices(Get(Head(zones), "zones", <<>>))
         \o ExtractDevices(Tail(zones))

\* the installations the legacy backend answers with: one with nested
\* zones, one without a zones entry
LegacyInstallations ==
    {[location |-> "home", zones |-> <<[devices |-> <<"dev1">>, zones |-> <<[devices |-> <<"dev2">>]>>]>>],
     [location |-> "home"]}

\* get_installation_devices: [resp, reqs, session, raised, maps, cache];
\* data is the installation a Nexa session is answered with, legacy the one
\* a legacy session is answered with
get_installation_devices(ro, go, no, data, legacy) ==
    LET installation_response == get_installation_by_id(ro, go, no, data)
        zones == IF "zones" \in DOMAIN data THEN data["zones"]
                 ELSE IF "rooms" \in DOMAIN data THEN data["rooms"]
                 ELSE <<data>>
        found == ExtractDevicesAny(zones)
        devices == [i \in 1..Len(found) |-> DeviceIdOf(found[i])]
        kept == installation_response @@ [cache |-> nexa_device_cache]
    IN IF installation_response.raised # None THEN kept
       ELSE IF ~installation_response.resp.success THEN kept
       ELSE IF use_nexa_ws
       THEN [kept EXCEPT !.resp = ApiResponse(TRUE, UniqueFrom(devices, {}), None),
                         !.cache = CacheNexaDevices(nexa_device_cache, found)]
       ELSE IF "zones" \notin DOMAIN legacy
       THEN [kept EXCEPT !.resp = None, !.raised = "KeyError"]
       ELSE [kept EXCEPT !.resp = ApiResponse(TRUE, ExtractDevices(legacy.zones), None)]

\* a firmware read that checks the token before it looks at the backend
get_latest_firmware_after_auth(ro, go) ==
    LET a == EnsureValidAuth(Session, now, ro)
    IN IF ~a.ok THEN Returned(a, ApiResponse(FALSE, None, "Invalid authentication."), <<>>)
       ELSE IF use_nexa_ws THEN Returned(a, ApiResponse(TRUE, EmptyDict, None), <<>>)
       ELSE Returned(a, ApiResponse(TRUE, "update_map", None), <<Request("GET", "FIREBASE_GLOBAL_SETTINGS_PATH", [auth |-> a.session.auth_token])>>)

\* get_latest_firmware
get_latest_firmware(ro, go) ==
    LET a == EnsureValidAuth(Session, now, ro)
        none == [ok |-> TRUE, session |-> Session, reqs |-> <<>>]
        req == <<Request("GET", "FIREBASE_GLOBAL_SETTINGS_PATH", [auth |-> a.session.auth_token])>>
    IN IF use_nexa_ws THEN Returned(none, ApiResponse(TRUE, EmptyDict, None), <<>>)
       ELSE IF ~a.ok THEN Returned(a, ApiResponse(FALSE, None, "Invalid authentication."), <<>>)
       ELSE IF go = "network" THEN Returned(a, ApiResponse(FALSE, None, "Network error"), req)
       ELSE IF go = "rejected" THEN Returned(a, ApiResponse(FALSE, None, "get_latest_firmware() returned status"), req)
       ELSE IF go = "empty" THEN Returned(a, ApiResponse(FALSE, None, "Global Settings is empty."), req)
       ELSE IF go = "malformed" THEN Raises(a, "ValueError", req)
       ELSE Returned(a, ApiResponse(TRUE, "update_map", None), req)

\* what a WebSocket read can meet: the connection is not open within the
\* connect timeout; the transport reports an error; no answer arrives
\* within the response timeout; the inbound frame is not JSON or carries
\* another request id; the answer carries null, a scalar, a mapping with a
\* nested "data" key, a mapping without one
WsReadOutcomes == {"connect_timeout", "transport_error", "timeout", "malformed", "null", "scalar", "dict_with_data", "dict_plain"}

\* the raw fields of a device as the Nexa backend stores them
NexaDeviceData ==
    [type |-> "radiator", product_version |-> "v2", power |-> I(2), mode |-> I(0), status |-> S("none"),
     temp |-> 400, temp_probe |-> 380, comfort |-> 420, eco |-> 360, ice |-> 140]

\* the value result_holder["data"] of _read_via_websocket ends with
WsReadData(do) ==
    IF do = "dict_with_data" THEN [kind |-> "dict", value |-> [data |-> NexaDeviceData, serialnumber |-> "SN1"]]
    ELSE IF do = "dict_plain" THEN [kind |-> "dict", value |-> NexaDeviceData]
    ELSE IF do = "scalar" THEN [kind |-> "scalar", value |-> None]
    ELSE [kind |-> "none", value |-> None]

\* the frames on_open sends: the auth frame with request id 2, then the get
\* frame with request id 3
WsReadFrames(path, token) ==
    <<[r |-> 2, a |-> "auth", p |-> None, d |-> token], [r |-> 3, a |-> "g", p |-> path, d |-> None]>>

\* _read_via_websocket: [data, reqs, session]
ReadViaWebsocket(s, t, ro, path, do) ==
    LET a == EnsureValidAuth(s, t, ro)
        frames == WsReadFrames(path, a.session.auth_token)
        rpc(sent) == Answered(Request("WS_READ", firebase_ws_url, sent), do)
    IN IF ~a.ok \/ ~Truthy(firebase_ws_url)
       THEN [data |-> WsReadData("null"), reqs |-> a.reqs, session |-> a.session]
       ELSE IF do = "connect_timeout"
       THEN [data |-> WsReadData("null"), reqs |-> a.reqs \o <<rpc(<<>>)>>, session |-> a.session]
       ELSE [data |-> WsReadData(do), reqs |-> a.reqs \o <<rpc(frames)>>, session |-> a.session]

\* the paths of get_device with the id-based paths first
NexaDevicePathsIdFirst(device_id) ==
    LET meta == Get(nexa_device_cache, device_id, EmptyDict)
        serial == Get(meta, "serialNumber", None)
    IN <<(<<"devices", device_id, "data">>), (<<"devices", device_id>>)>>
       \o (IF Truthy(serial) THEN <<(<<"devices", serial, "data">>), (<<"devices", serial>>)>> ELSE <<>>)

\* the paths the Nexa branch of get_device reads, in order
NexaDevicePaths(device_id) ==
    LET meta == Get(nexa_device_cache, device_id, EmptyDict)
        serial == Get(meta, "serialNumber", None)
    IN (IF Truthy(serial) THEN <<(<<"devices", serial, "data">>), (<<"devices", serial>>)>> ELSE <<>>)
       \o <<(<<"devices", device_id, "data">>), (<<"devices", device_id>>)>>

\* what the reads of one Nexa get_device meet: the first `hit` - 1 paths
\* all answer `miss` (nothing structured), path `hit` answers `kind`
\* (hit = 0: no path answers a mapping), the firmware read answers `fw`
NexaDeviceOutcomes ==
    [hit : 0..4, miss : {"connect_timeout", "transport_error", "timeout", "malformed", "scalar"},
     kind : {"dict_with_data", "dict_plain"}, fw : {"timeout", "dict_plain"}]

\* the outcome of the i-th path read
PathOutcome(go, i) == IF i = go.hit THEN go.kind ELSE go.miss

\* the path reads of get_device up to the first mapping: the reads issued
RECURSIVE NexaPathReads(_, _, _, _, _)
NexaPathReads(s, ro, paths, go, i) ==
    IF i > Len(paths) THEN <<>>
    ELSE LET rd == ReadViaWebsocket(s, now, ro, paths[i], PathOutcome(go, i))
         IN IF rd.data.kind = "dict" THEN <<rd>>
            ELSE <<rd>> \o NexaPathReads(rd.session, ro, paths, go, i + 1)

\* the canonical shape get_device wraps a mapping without "data" into
WrapNexaDevice(device_id, ws_data, firmware_data) ==
    LET meta == Get(nexa_device_cache, device_id, EmptyDict)
        name == IF Truthy(Get(meta, "name", None)) /\ "name" \notin DOMAIN ws_data THEN [name |-> meta.name] ELSE EmptyDict
        serial == IF Truthy(Get(meta, "serialNumber", None)) THEN [serialnumber |-> meta.serialNumber] ELSE EmptyDict
        firmware == IF firmware_data.kind = "dict" THEN [firmware |-> [firmware_version_device |-> "1.0", firmware_version |-> "1.0"]] ELSE EmptyDict
    IN [data |-> ws_data @@ name] @@ serial @@ firmware

ConcatReqs(reads) == [i \in 1..Len(reads) |-> reads[i].reqs]

RECURSIVE Flatten(_)
Flatten(seqs) == IF Len(seqs) = 0 THEN <<>> ELSE Head(seqs) \o Flatten(Tail(seqs))

\* the raw device the legacy backend answers get_device with
LegacyDevicePayload ==
    [data |-> [type |-> "radiator", product_version |-> "v2", power |-> B(TRUE), mode |-> S("manual"), status |-> S("none"),
               temp |-> 400, temp_probe |-> 380, comfort |-> 420, eco |-> 360, ice |-> 140],
     serialnumber |-> "SN1",
     firmware |-> [firmware_version_device |-> "1.0", hardware_version |-> "2.0"]]

\* get_device
get_device(device_id, ro, go, ngo) ==
    LET a == EnsureValidAuth(Session, now, ro)
        paths == NexaDevicePaths(device_id)
        reads == NexaPathReads(a.session, ro, paths, ngo, 1)
        last == reads[Len(reads)]
        after == [ok |-> TRUE, session |-> last.session, reqs |-> a.reqs]
        serial == Get(Get(nexa_device_cache, device_id, EmptyDict), "serialNumber", None)
        fw == ReadViaWebsocket(last.session, now, ro, <<"devices", serial, "firmware">>, ngo.fw)
        req == <<Request("GET", "FIREBASE_DEVICES_PATH_BY_ID", [auth |-> a.session.auth_token, id |-> device_id])>>
    IN IF ~a.ok THEN Returned(a, ApiResponse(FALSE, None, "Invalid authentication."), <<>>)
       ELSE IF use_nexa_ws
       THEN IF last.data.kind # "dict"
            THEN Returned(after, ApiResponse(FALSE, None, "WebSocket read failed"), Flatten(ConcatReqs(reads)))
            ELSE IF "data" \in DOMAIN last.data.value
            THEN Returned(after, ApiResponse(TRUE, last.data.value, None), Flatten(ConcatReqs(reads)))
            ELSE IF Truthy(serial)
            THEN Returned([after EXCEPT !.session = fw.session],
                          ApiResponse(TRUE, WrapNexaDevice(device_id, last.data.value, fw.data), None),
                          Flatten(ConcatReqs(reads)) \o fw.reqs)
            ELSE Returned(after, ApiResponse(TRUE, WrapNexaDevice(device_id, last.data.value, WsReadData("null")), None),
                          Flatten(ConcatReqs(reads)))
       ELSE IF go = "network" THEN Returned(a, ApiResponse(FALSE, None, "Network error"), req)
       ELSE IF go = "rejected" THEN Returned(a, ApiResponse(FALSE, None, "get_device() returned status"), req)
       ELSE IF go = "malformed" THEN Raises(a, "ValueError", req)
       ELSE IF go = "empty" THEN Returned(a, ApiResponse(TRUE, None, None), req)
       ELSE Returned(a, ApiResponse(TRUE, LegacyDevicePayload, None), req)

-----------------------------------------------------------------------------
(* Energy statistics *)

\* ENERGY_STATS_MAX_TRIES
ENERGY_STATS_MAX_TRIES == 5

\* what the hourly requests of one legacy get_latest_energy_stats meet: the
\* first `empty` hours answer no data, the next hour answers `final`
EnergyOutcomes == [empty : {0, 1, ENERGY_STATS_MAX_TRIES - 1, ENERGY_STATS_MAX_TRIES}, final : {"ok", "malformed", "rejected", "network"}]

\* _retrieve_hour_energy_stats for the hour `back` hours ago: o is "empty"
\* or one of the final answers
RetrieveHourEnergyStats(s, ro, device_id, back, o) ==
    LET a == EnsureValidAuth(s, now, ro)
        req == <<Answered(Request("GET", "FIREBASE_DEVICE_ENERGY_PATH_BY_ID", [auth |-> a.session.auth_token, id |-> device_id, hours_back |-> back]), o)>>
    IN IF ~a.ok THEN Returned(a, ApiResponse(FALSE, None, "Invalid authentication."), <<>>)
       ELSE IF o = "network" THEN Returned(a, ApiResponse(FALSE, None, "Network error"), req)
       ELSE IF o = "rejected" THEN Returned(a, ApiResponse(FALSE, None, "_retrieve_hour_energy_stats() returned status"), req)
       ELSE IF o = "empty" THEN Returned(a, ApiResponse(FALSE, None, "No energy stats found."), req)
       ELSE IF o = "malformed" THEN Raises(a, "KeyError", req)
       ELSE Returned(a, ApiResponse(TRUE, [kwh |-> "kw_h", effective_power |-> "effective_power", hours_back |-> back], None), req)

\* a loop that goes back one more hour after every failure, not only after
\* an hour without data
RECURSIVE EnergyLoopAfterAnyFailure(_, _, _, _, _, _)
EnergyLoopAfterAnyFailure(s, ro, device_id, eo, attempts, reqs) ==
    IF attempts = 0
    THEN [resp |-> ApiResponse(FALSE, None, "Max tries exceeded."), reqs |-> reqs, session |-> s, raised |-> None]
    ELSE LET back == ENERGY_STATS_MAX_TRIES - attempts
             r == RetrieveHourEnergyStats(s, ro, device_id, back, IF back < eo.empty THEN "empty" ELSE eo.final)
         IN IF r.raised = None /\ ~r.resp.success
            THEN EnergyLoopAfterAnyFailure(r.session, ro, device_id, eo, attempts - 1, reqs \o r.reqs)
            ELSE [r EXCEPT !.reqs = reqs \o r.reqs]

\* the while loop of the legacy get_latest_energy_stats, `attempts` left
RECURSIVE EnergyLoop(_, _, _, _, _, _)
EnergyLoop(s, ro, device_id, eo, attempts, reqs) ==
    IF attempts = 0
    THEN [resp |-> ApiResponse(FALSE, None, "Max tries exceeded."), reqs |-> reqs, session |-> s, raised |-> None]
    ELSE LET back == ENERGY_STATS_MAX_TRIES - attempts
             r == RetrieveHourEnergyStats(s, ro, device_id, back, IF back < eo.empty THEN "empty" ELSE eo.final)
         IN IF r.raised = None /\ r.resp.error_message = "No energy stats found."
            THEN EnergyLoop(r.session, ro, device_id, eo, attempts - 1, reqs \o r.reqs)
            ELSE [r EXCEPT !.reqs = reqs \o r.reqs]

\* the statistics snapshots the Nexa backend answers with
NexaStatistics ==
    {[energy |-> 50, cost |-> 100, zones |-> <<[id |-> "zoneA", cost |-> 40], [id |-> "zoneB", cost |-> 60]>>],
     [energy |-> 50, cost |-> 100, zones |-> <<[id |-> "zoneA", cost |-> 100], [id |-> "zoneB", cost |-> 0]>>],
     [energy |-> 50, cost |-> 100, zones |-> <<[id |-> "zoneB", cost |-> 0]>>],
     [energy |-> 50, cost |-> 0, zones |-> <<[id |-> "zoneA", cost |-> 0]>>],
     [energy |-> 50, cost |-> 100, zones |-> <<>>],
     [cost |-> 100, zones |-> <<[id |-> "zoneA", cost |-> 40], [id |-> "zoneB", cost |-> 60]>>],
     EmptyDict}

\* what the Nexa statistics request can meet
StatisticsOutcomes == {"ok", "invalid_json", "bad_format", "rejected", "network"}

\* get_nexa_energy_stats: [resp, reqs, cache]
get_nexa_energy_stats(installation_id, so, data) ==
    LET req == <<Answered(Request("GET", "NEXA_STATISTICS_URL", [token |-> nexa_token, installation |-> installation_id]), so)>>
    IN IF ~Truthy(nexa_token) THEN [resp |-> ApiResponse(FALSE, None, "Nexa token not available"), reqs |-> <<>>, cache |-> nexa_installation_energy]
       ELSE IF so = "network" THEN [resp |-> ApiResponse(FALSE, None, "Network error"), reqs |-> req, cache |-> nexa_installation_energy]
       ELSE IF so = "rejected" THEN [resp |-> ApiResponse(FALSE, None, "Nexa statistics returned status"), reqs |-> req, cache |-> nexa_installation_energy]
       ELSE IF so = "invalid_json" THEN [resp |-> ApiResponse(FALSE, None, "Nexa statistics invalid JSON"), reqs |-> req, cache |-> nexa_installation_energy]
       ELSE IF so = "bad_format" THEN [resp |-> ApiResponse(FALSE, None, "Nexa statistics invalid format"), reqs |-> req, cache |-> nexa_installation_energy]
       ELSE [resp |-> ApiResponse(TRUE, data, None), reqs |-> req, cache |-> <<data>>]

\* `not self._nexa_installation_energy`: the cache is <<>> (None) or holds
\* one snapshot, and an empty snapshot is falsy
StatsFalsy(cache) == cache = <<>> \/ DOMAIN cache[1] = {}

\* the cost of the first zone of the snapshot with the given id, 0 if none
RECURSIVE ZoneCost(_, _)
ZoneCost(zones, zone_id) ==
    IF Len(zones) = 0 THEN 0
    ELSE IF Get(Head(zones), "id", None) = zone_id THEN Get(Head(zones), "cost", 0)
    ELSE ZoneCost(Tail(zones), zone_id)

RECURSIVE SumLen(_, _)
SumLen(f, keys) ==
    IF keys = {} THEN 0
    ELSE LET k == CHOOSE x \in keys : TRUE IN Len(f[k]) + SumLen(f, keys \ {k})

\* an estimate in kWh as the exact fraction num / den
Fraction(num, den) == [num |-> num, den |-> den]

\* an estimate that shares the total energy evenly among all mapped devices
EstimateEvenShare(stats, device_serial) ==
    LET total_devices == SumLen(nexa_zone_device_map, DOMAIN nexa_zone_device_map)
    IN IF Get(stats, "cost", 0) <= 0 \/ Len(Get(stats, "zones", <<>>)) = 0
       THEN ApiResponse(FALSE, None, "No cost data to estimate energy")
       ELSE ApiResponse(TRUE, [kwh |-> Fraction(Get(stats, "energy", 0), IF total_devices > 0 THEN total_devices ELSE 1), effective_power |-> 0], None)

\* the estimate of get_device_energy_from_nexa_stats from a snapshot
EstimateDeviceEnergy(stats, device_serial) ==
    LET total_energy == Get(stats, "energy", 0)
        total_cost == Get(stats, "cost", 0)
        zones == Get(stats, "zones", <<>>)
        known == device_serial \in DOMAIN nexa_device_zone_map /\ Truthy(nexa_device_zone_map[device_serial])
        zone_id == nexa_device_zone_map[device_serial]
        total_devices == SumLen(nexa_zone_device_map, DOMAIN nexa_zone_device_map)
        zone_cost == ZoneCost(zones, zone_id)
        devices_in_zone == Get(nexa_zone_device_map, zone_id, <<device_serial>>)
        device_count == IF Len(devices_in_zone) > 0 THEN Len(devices_in_zone) ELSE 1
    IN IF total_cost <= 0 \/ Len(zones) = 0 THEN ApiResponse(FALSE, None, "No cost data to estimate energy")
       ELSE IF ~known
       THEN ApiResponse(TRUE, [kwh |-> Fraction(total_energy, IF total_devices > 0 THEN total_devices ELSE 1), effective_power |-> 0], None)
       ELSE IF zone_cost <= 0 THEN ApiResponse(FALSE, None, "Zone has no cost data")
       ELSE ApiResponse(TRUE, [kwh |-> Fraction(zone_cost * total_energy, total_cost * device_count), effective_power |-> 0], None)

\* an estimator that asks for the statistics on every call
get_device_energy_always_fetching(device_serial, installation_id, so, data) ==
    LET stats_response == get_nexa_energy_stats(installation_id, so, data)
    IN IF ~stats_response.resp.success THEN stats_response
       ELSE IF StatsFalsy(stats_response.cache) THEN [resp |-> ApiResponse(FALSE, None, "No statistics available"), reqs |-> stats_response.reqs, cache |-> stats_response.cache]
       ELSE [resp |-> EstimateDeviceEnergy(stats_response.cache[1], device_serial), reqs |-> stats_response.reqs, cache |-> stats_response.cache]

\* get_device_energy_from_nexa_stats: [resp, reqs, cache]
get_device_energy_from_nexa_stats(device_serial, installation_id, so, data) ==
    LET stats_response == get_nexa_energy_stats(installation_id, so, data)
        fetched == StatsFalsy(nexa_installation_energy)
        cache == IF fetched THEN stats_response.cache ELSE nexa_installation_energy
        reqs == IF fetched THEN stats_response.reqs ELSE <<>>
    IN IF fetched /\ ~stats_response.resp.success THEN stats_response
       ELSE IF StatsFalsy(cache) THEN [resp |-> ApiResponse(FALSE, None, "No statistics available"), reqs |-> reqs, cache |-> cache]
       ELSE [resp |-> EstimateDeviceEnergy(cache[1], device_serial), reqs |-> reqs, cache |-> cache]

\* get_latest_energy_stats: [resp, reqs, session, raised, cache]
get_latest_energy_stats(device_id, installation_id, ro, eo, so, data) ==
    LET none == [ok |-> TRUE, session |-> Session, reqs |-> <<>>]
        cached == Get(nexa_device_cache, device_id, EmptyDict)
        device_serial == IF Truthy(Get(cached, "serialNumber", None)) THEN cached.serialNumber ELSE device_id
        nexa == get_device_energy_from_nexa_stats(device_serial, installation_id, so, data)
    IN IF use_nexa_ws
       THEN IF ~Truthy(installation_id)
            THEN Returned(none, ApiResponse(FALSE, None, "Installation ID required for Nexa energy stats"), <<>>) @@ [cache |-> nexa_installation_energy]
            ELSE Returned(none, nexa.resp, nexa.reqs) @@ [cache |-> nexa.cache]
       ELSE EnergyLoop(Session, ro, device_id, eo, ENERGY_STATS_MAX_TRIES, <<>>) @@ [cache |-> nexa_installation_energy]

-----------------------------------------------------------------------------
(* The API client as a state machine: one action per public operation *)

\* the devices the entity layer passes to the write operations
ApiPayloads ==
    {[data |-> [type |-> "radiator", product_version |-> "v2", power |-> I(2), status |-> S("none"),
                mode |-> S(m[1]), temp |-> 380, comfort |-> 420, eco |-> 360, ice |-> 140,
                ice_mode |-> m[2], schedule |-> ListSchedule(<<DayStr(<<"C", "E">>)>>)],
      serialnumber |-> "SN1"] :
       m \in {<<"manual", TRUE>>, <<"auto", FALSE>>}}

\* the clock readings of the session machine: a Comfort hour, an Eco hour,
\* a day the schedule has no entry for
ApiClocks == {<<0, 0>>, <<0, 1>>, <<1, 0>>}

ApiDevices == {NewDevice("dev1", p, None, None).dev : p \in ApiPayloads}

\* the set-point values the entity layer passes to set_device_temp
ApiTemps == {140, 415}

InitApi ==
    /\ username = "user"
    /\ password = "secret"
    /\ api_type \in {"auto", "rointe", "nexa"}
    /\ refresh_token = None
    /\ auth_token = None
    /\ auth_token_expire_date = <<>>
    /\ local_id = None
    /\ nexa_token = None
    /\ nexa_refresh_token = None
    /\ firebase_base_url = "FIREBASE_DEFAULT_URL"
    /\ firebase_ws_url = None
    /\ firebase_app_key = "FIREBASE_APP_KEY"
    /\ use_nexa_ws = FALSE
    /\ nexa_device_cache = EmptyDict
    /\ nexa_zone_device_map = EmptyDict
    /\ nexa_device_zone_map = EmptyDict
    /\ nexa_installation_energy = <<>>
    /\ now = 0
    /\ op = [name |-> "__init__"]
    /\ requests = <<>>
    /\ result = None
    /\ raised = None
    /\ calls = 0
    /\ login_succeeded = FALSE

InitDev ==
    /\ dev = NoDevice
    /\ dev_error = None

\* the threads of the executor pool that call the API at the same time
Callers == {"t1", "t2"}

\* a thread that is in no call of _ensure_valid_auth
IdleCaller == [pc |-> "idle", ok |-> None]

\* a WebSocket RPC that has not been started
NoRpc ==
    [call |-> None, frames |-> <<>>, main |-> "none", worker |-> "none", sock |-> "none",
     connected |-> FALSE, done |-> FALSE, closing |-> FALSE, joined |-> FALSE,
     request_id |-> 1, sent |-> <<>>, results |-> {}, errors |-> 0, events |-> <<>>, exit |-> None]

InitThreads ==
    /\ callers = [c \in Callers |-> IdleCaller]
    /\ in_flight = {}
    /\ ws = NoRpc

Init == InitApi /\ InitDev /\ InitThreads

\* the end of an operation: what it leaves in the session and reports
Complete(o, out) ==
    /\ calls < MaxCalls
    /\ calls' = calls + 1
    /\ op' = o @@ [at |-> now]
    /\ requests' = out.reqs
    /\ result' = out.resp
    /\ raised' = Get(out, "raised", None)
    /\ auth_token' = out.session.auth_token
    /\ refresh_token' = out.session.refresh_token
    /\ auth_token_expire_date' = out.session.auth_token_expire_date

Tick ==
    /\ now < MaxTime
    /\ now' = now + 1
    /\ UNCHANGED <<sessionVars, loginVars, credVars, cacheVars, opVars, devVars, threadVars>>

\* the backends accept a login only with the credentials of the account
LoginAnswers(outcomes) == IF username = None \/ password = None THEN outcomes \ {"ok"} ELSE outcomes

Login ==
    \E lo \in LoginAnswers(LegacyLoginOutcomes), no \in LoginAnswers(NexaLoginOutcomes) : InitializeAuthentication(lo, no)

\* the answers of a request are drawn only when the request can be made
Only(outcomes, possible) == IF possible THEN outcomes ELSE {CHOOSE o \in outcomes : TRUE}

\* the token endpoint grants a token only for a refresh token it issued
Refreshes == Only(IF refresh_token = None THEN RefreshOutcomes \ {"ok"} ELSE RefreshOutcomes, NeedsRefresh(Session, now))

GetLocalId ==
    /\ \E ro \in Refreshes, go \in ReadOutcomes :
          Complete([name |-> "get_local_id"], get_local_id(ro, go))
    /\ UNCHANGED <<loginVars, credVars, cacheVars, now, devVars, threadVars>>

GetInstallations ==
    /\ \E ro \in Refreshes, go \in Only(ReadOutcomes, ~use_nexa_ws), no \in Only(NexaRestOutcomes, use_nexa_ws) :
          Complete([name |-> "get_installations"], get_installations(ro, go, no))
    /\ UNCHANGED <<loginVars, credVars, cacheVars, now, devVars, threadVars>>

GetInstallationById(installations) ==
    /\ \E ro \in Refreshes, go \in Only(ReadOutcomes, ~use_nexa_ws), no \in Only(NexaRestOutcomes, use_nexa_ws),
          data \in Only(installations, use_nexa_ws) :
          LET out == get_installation_by_id(ro, go, no, data)
          IN /\ Complete([name |-> "get_installation_by_id"], out)
             /\ nexa_zone_device_map' = out.maps.zone_device
             /\ nexa_device_zone_map' = out.maps.device_zone
    /\ UNCHANGED <<loginVars, credVars, nexa_device_cache, nexa_installation_energy, now, devVars, threadVars>>

GetInstallationDevices(installations, legacy_installations) ==
    /\ \E ro \in Refreshes, go \in Only(ReadOutcomes, ~use_nexa_ws), no \in Only(NexaRestOutcomes, use_nexa_ws),
          data \in Only(installations, use_nexa_ws), legacy \in Only(legacy_installations, ~use_nexa_ws) :
          LET out == get_installation_devices(ro, go, no, data, legacy)
          IN /\ Complete([name |-> "get_installation_devices", installation |-> data, legacy |-> legacy], out)
             /\ nexa_zone_device_map' = out.maps.zone_device
             /\ nexa_device_zone_map' = out.maps.device_zone
             /\ nexa_device_cache' = out.cache
    /\ UNCHANGED <<loginVars, credVars, nexa_installation_energy, now, devVars, threadVars>>

GetLatestFirmware ==
    /\ \E ro \in Refreshes, go \in Only(ReadOutcomes, ~use_nexa_ws) :
          Complete([name |-> "get_latest_firmware"], get_latest_firmware(ro, go))
    /\ UNCHANGED <<loginVars, credVars, cacheVars, now, devVars, threadVars>>

GetDevice ==
    /\ \E ro \in Refreshes, go \in Only(ReadOutcomes, ~use_nexa_ws), ngo \in Only(NexaDeviceOutcomes, use_nexa_ws) :
          Complete([name |-> "get_device", device_id |-> "dev1"], get_device("dev1", ro, go, ngo))
    /\ UNCHANGED <<loginVars, credVars, cacheVars, now, devVars, threadVars>>

GetLatestEnergyStats(device_ids, statistics) ==
    /\ \E device_id \in device_ids, installation_id \in Only({None, "inst1"}, use_nexa_ws), ro \in Refreshes,
          eo \in Only(EnergyOutcomes, ~use_nexa_ws), so \in Only(StatisticsOutcomes, use_nexa_ws),
          data \in Only(statistics, use_nexa_ws) :
          LET out == get_latest_energy_stats(device_id, installation_id, ro, eo, so, data)
          IN /\ Complete([name |-> "get_latest_energy_stats", device_id |-> device_id, installation_id |-> installation_id], out)
             /\ nexa_installation_energy' = out.cache
    /\ UNCHANGED <<loginVars, credVars, nexa_device_cache, nexa_zone_device_map, nexa_device_zone_map, now, devVars, threadVars>>

\* get_nexa_energy_stats called on its own: the explicit refresh of the snapshot
GetNexaEnergyStats(statistics) ==
    /\ use_nexa_ws
    /\ \E so \in StatisticsOutcomes, data \in statistics :
          LET out == get_nexa_energy_stats("inst1", so, data)
          IN /\ Complete([name |-> "get_nexa_energy_stats", installation_id |-> "inst1"], out @@ [session |-> Session])
             /\ nexa_installation_energy' = out.cache
    /\ UNCHANGED <<loginVars, credVars, nexa_device_cache, nexa_zone_device_map, nexa_device_zone_map, now, devVars, threadVars>>

SetDeviceTemp ==
    /\ \E device \in ApiDevices, new_temp \in ApiTemps, ro \in Refreshes,
          po \in Only(HttpOutcomes, ~use_nexa_ws), wo \in Only(WsWriteOutcomes, use_nexa_ws) :
          Complete([name |-> "set_device_temp", device |-> device, new_temp |-> new_temp],
                   set_device_temp(device, new_temp, ro, po, wo))
    /\ UNCHANGED <<loginVars, credVars, cacheVars, now, devVars, threadVars>>

SetDevicePreset ==
    /\ \E device \in ApiDevices, preset_mode \in Presets \cup {"none"}, ro \in Refreshes,
          po \in Only(HttpOutcomes, ~use_nexa_ws), wo \in Only(WsWriteOutcomes, use_nexa_ws) :
          Complete([name |-> "set_device_preset", device |-> device, preset_mode |-> preset_mode],
                   set_device_preset(device, preset_mode, ro, po, wo))
    /\ UNCHANGED <<loginVars, credVars, cacheVars, now, devVars, threadVars>>

SetDeviceMode ==
    /\ \E device \in ApiDevices, hvac_mode \in HvacModes \cup {"cool"} :
          \E clock \in Only(ApiClocks, hvac_mode = "auto"), ro \in Refreshes,
             po1 \in Only(HttpOutcomes, ~use_nexa_ws), po2 \in Only(HttpOutcomes, ~use_nexa_ws),
             wo \in Only(WsWriteOutcomes, use_nexa_ws) :
             Complete([name |-> "set_device_mode", device |-> device, hvac_mode |-> hvac_mode,
                       day_of_week |-> clock[1], hour_index |-> clock[2]],
                      set_device_mode(device, hvac_mode, clock[1], clock[2], ro, po1, po2, wo))
    /\ UNCHANGED <<loginVars, credVars, cacheVars, now, devVars, threadVars>>

\* the installation and the statistics snapshot the session machine reads
SessionInstallations == {[zones |-> <<[id |-> "zoneA", devices |-> <<[serialNumber |-> "SN1"]>>]>>]}
SessionStatistics == {[energy |-> 50, cost |-> 100, zones |-> <<[id |-> "zoneA", cost |-> 40], [id |-> "zoneB", cost |-> 60]>>]}

Next ==
    \/ Tick
    \/ Login
    \/ GetLocalId
    \/ GetInstallations
    \/ GetInstallationById(SessionInstallations)
    \/ GetInstallationDevices(SessionInstallations, LegacyInstallations)
    \/ GetLatestFirmware
    \/ GetDevice
    \/ GetLatestEnergyStats({"dev1"}, SessionStatistics)
    \/ SetDeviceTemp
    \/ SetDevicePreset
    \/ SetDeviceMode

Spec == Init /\ [][Next]_vars

-----------------------------------------------------------------------------
(* The Nexa backend alone: installation fetches, which build the zone maps   *)
(* and the device cache, and energy estimates, over several installations   *)
(* and statistics snapshots                                                 *)

\* the devices energy is asked for: one of the installations, one of none
EnergyDeviceIds == {"dev1", "dev9"}

InitNexa == Init /\ api_type = "nexa"

NextNexa ==
    \/ Tick
    \/ Login
    \/ GetInstallationById(NexaInstallations)
    \/ GetInstallationDevices(NexaInstallations, LegacyInstallations)
    \/ GetLatestEnergyStats(EnergyDeviceIds, NexaStatistics)
    \/ GetNexaEnergyStats(NexaStatistics)
    \/ GetDevice

SpecNexa == InitNexa /\ [][NextNexa]_vars

-----------------------------------------------------------------------------
(* Properties of the session machine *)

\* the device writes among the requests of the last operation
Writes(reqs) == SelectSeq(reqs, LAMBDA r : r.method \in {"PATCH", "WS_WRITE"})

\* the last operation passed its token-validity check
PassedAuth == result.error_message # "Invalid authentication."

\* the fields of a PATCH body apart from the sync timestamp
PatchFields(req) == [k \in DOMAIN req.body \ {"last_sync_datetime_app"} |-> req.body[k]]

OffFromManual == op.name = "set_device_mode" /\ op.hvac_mode = "off" /\ op.device.mode = "manual"

PowerOffBody == [power |-> FALSE, mode |-> "manual", status |-> "off"]

\* C1: set_device_mode('off') on a manual device that passed the token check
\* sends, on the legacy backend, the neutral-temperature PATCH first and the
\* power-off PATCH second, the second exactly when the first was answered
\* with success; on the Nexa backend it makes exactly one WebSocket write
\* call (one connection, carrying the auth frame and the put frames of
\* status, mode and power)
C1_OffFromManual ==
    (OffFromManual /\ PassedAuth) =>
        LET w == Writes(requests)
        IN IF use_nexa_ws
           THEN Len(w) = 1 /\ w[1].method = "WS_WRITE"
           ELSE /\ Len(w) \in {1, 2}
                /\ w[1].method = "PATCH" /\ PatchFields(w[1]) = [temp |-> NeutralTemp]
                /\ (Len(w) = 2) <=> (w[1].answer = "ok")
                /\ Len(w) = 2 => (w[2].method = "PATCH" /\ PatchFields(w[2]) = PowerOffBody)

\* both PATCHes of an off-from-manual sequence were sent and answered 200
C1_Witness ==
    /\ OffFromManual /\ ~use_nexa_ws /\ result.success
    /\ Len(Writes(requests)) = 2

\* the Nexa off-from-manual write went out
C1_WitnessNexa ==
    /\ OffFromManual /\ use_nexa_ws /\ result.success
    /\ Len(Writes(requests)) = 1

\* the first PATCH of an off-from-manual sequence failed
C1_WitnessFirstFails ==
    /\ OffFromManual /\ ~use_nexa_ws /\ PassedAuth
    /\ Writes(requests)[1].answer # "ok"

\* a legacy two-step sequence of set_device_mode
MultiStep ==
    /\ op.name = "set_device_mode" /\ ~use_nexa_ws /\ PassedAuth
    /\ \/ op.hvac_mode \in {"heat", "auto"}
       \/ op.hvac_mode = "off" /\ op.device.mode = "manual"

\* C2: in a legacy two-step sequence the second PATCH is sent only when the
\* first was answered with success; when a step fails no further step is
\* sent and the operation returns that step's failure, so a failure of the
\* second step fails the operation although the first PATCH was applied
C2_StepsInSequence ==
    MultiStep =>
        LET w == Writes(requests)
            last == w[Len(w)]
        IN /\ Len(w) \in {1, 2}
           /\ Len(w) = 2 => w[1].answer = "ok"
           /\ last.answer # "ok" => result = SendPatchRequest(PatchFields(last), last.body.last_sync_datetime_app, last.answer).resp
           /\ last.answer # "ok" => ~result.success
           /\ result.success => \A i \in 1..Len(w) : w[i].answer = "ok"

\* the second PATCH of a heat sequence was rejected after the first was applied
C2_Witness ==
    /\ MultiStep /\ op.hvac_mode = "heat"
    /\ Len(Writes(requests)) = 2
    /\ Writes(requests)[2].answer = "rejected"
    /\ ~result.success

LastLogin == op.name = "initialize_authentication"

Contacted(url) == \E i \in 1..Len(requests) : requests[i].url = url

\* C3: a login with backend auto whose legacy request is answered 400 sends
\* the Nexa login request after the legacy one, and succeeds when the Nexa
\* login does; with backend rointe the 400 is reported without any Nexa
\* request; with backend nexa the legacy verify endpoint is not contacted
C3_AuthFallback ==
    LastLogin =>
        /\ (api_type = "auto" /\ op.legacy = "400") =>
              /\ Len(requests) >= 2
              /\ requests[1].url = "AUTH_VERIFY_URL"
              /\ requests[2].url = "NEXA_LOGIN_URL"
              /\ op.nexa = "ok" => (result.success /\ use_nexa_ws)
              /\ op.nexa # "ok" => result = LegacyStatusFailure("400")
        /\ (api_type = "rointe" /\ op.legacy = "400") =>
              /\ ~Contacted("NEXA_LOGIN_URL") /\ ~Contacted("NEXA_FIREBASE_AUTH_URL")
              /\ result = LegacyStatusFailure("400")
        /\ api_type = "nexa" => ~Contacted("AUTH_VERIFY_URL")

\* backend auto: the legacy login was answered 400 and the Nexa login succeeded
C3_Witness ==
    /\ LastLogin /\ api_type = "auto" /\ op.legacy = "400" /\ op.nexa = "ok"
    /\ result.success /\ use_nexa_ws
    /\ Len(requests) = 3

\* backend rointe: the 400 was reported
C3_WitnessRointe == LastLogin /\ api_type = "rointe" /\ op.legacy = "400" /\ ~result.success

\* C4: the stored username and password are both null exactly when some
\* initialize_authentication has succeeded, and otherwise both still hold
\* the configured values
C4_CredentialsCleared ==
    /\ (username = None /\ password = None) <=> login_succeeded
    /\ ~login_succeeded => (username # None /\ password # None)
    /\ (LastLogin /\ ~result.success /\ ~login_succeeded) => (username = "user" /\ password = "secret")

\* a login failed after an earlier one had succeeded and cleared the credentials
C4_Witness ==
    /\ LastLogin /\ ~result.success /\ login_succeeded
    /\ username = None /\ password = None

\* a login failed and the credentials are still stored
C4_WitnessFailed == LastLogin /\ ~result.success /\ username = "user" /\ calls = 2

\* the operations C5 names: installation and device reads, temperature,
\* preset and mode writes, energy fetches
AuthenticatedOps ==
    {"get_installations", "get_installation_by_id", "get_device",
     "set_device_temp", "set_device_preset", "set_device_mode", "get_latest_energy_stats"}

\* the requests of the last operation other than the token refresh
BackendRequests(reqs) == SelectSeq(reqs, LAMBDA r : r.url # "AUTH_REFRESH_ENDPOINT")

\* the session still lacks a valid token after the last operation: the token
\* was absent or expired when it was called and no refresh succeeded
StillUnauthenticated == NeedsRefresh(Session, op.at)

\* C5: an authenticated operation called without a valid token attempts the
\* refresh first, and when the refresh fails it returns a failure without
\* sending a backend request
C5_AuthBeforeRequest ==
    (op.name \in AuthenticatedOps /\ StillUnauthenticated) =>
        /\ Len(requests) >= 1 /\ requests[1].url = "AUTH_REFRESH_ENDPOINT"
        /\ BackendRequests(requests) = <<>>
        /\ raised = None
        /\ ~result.success

\* C5 for the operations other than the Nexa energy fetch
C5_ExceptNexaEnergy ==
    (op.name = "get_latest_energy_stats" /\ use_nexa_ws) \/ C5_AuthBeforeRequest

\* the Nexa energy fetch sent its statistics request on an expired session
C5_NexaEnergyUnchecked ==
    /\ op.name = "get_latest_energy_stats" /\ use_nexa_ws /\ StillUnauthenticated
    /\ auth_token # None
    /\ Contacted("NEXA_STATISTICS_URL")
    /\ result.success

\* a legacy operation refused after a failed refresh of an expired token
C5_WitnessRefused ==
    /\ op.name \in AuthenticatedOps /\ StillUnauthenticated /\ auth_token # None
    /\ Len(requests) = 1

-----------------------------------------------------------------------------
(* Climate entity: the set-temperature command.  Temperatures are counted  *)
(* in twentieths of a degree, so 0.5 degrees is 10 and 21.3 degrees 426.   *)

RADIATOR_TEMP_STEP == 10
RADIATOR_TEMP_MIN == 140
RADIATOR_TEMP_MAX == 800

\* Python's round() of the quotient num / den: to the nearest integer, a tie
\* to the even one
PyRound(num, den) ==
    LET q == num \div den
        r == num % den
    IN IF 2 * r < den THEN q
       ELSE IF 2 * r > den THEN q + 1
       ELSE IF q % 2 = 0 THEN q ELSE q + 1

\* a climate entity that truncates to the half degree below
FloorToHalf(target_temperature) == (target_temperature \div RADIATOR_TEMP_STEP) * RADIATOR_TEMP_STEP

\* rounded_temp of async_set_temperature: round(target_temperature * 2) / 2
RoundedTemp(target_temperature) == PyRound(target_temperature, RADIATOR_TEMP_STEP) * RADIATOR_TEMP_STEP

\* the range check of async_set_temperature
InRange(target_temperature) == RADIATOR_TEMP_MIN <= target_temperature /\ target_temperature <= RADIATOR_TEMP_MAX

\* device_manager.send_command for RointeCommand.SET_TEMP: hands the device
\* and the value to set_device_temp of the API client
SendCommandSetTemp(device, value, ro, po, wo) == set_device_temp(device, value, ro, po, wo)

\* the temperatures the service call is made with: around the lower limit,
\* around 21.3 degrees, around the upper limit
ClimateTemps == (136..146) \cup (424..431) \cup (795..802)

\* the radiator of the climate entity
ClimateRadiator == CHOOSE d \in ApiDevices : d.mode = "manual"

\* async_set_temperature; the coordinator refresh that follows a successful
\* command leaves the command's requests and outcome as they are
AsyncSetTemperature ==
    /\ calls < MaxCalls
    /\ calls' = calls + 1
    /\ \E device \in {ClimateRadiator}, target_temperature \in ClimateTemps, ro \in Refreshes,
          po \in Only(HttpOutcomes, ~use_nexa_ws), wo \in Only(WsWriteOutcomes, use_nexa_ws) :
          /\ op' = [name |-> "async_set_temperature", temperature |-> target_temperature, at |-> now]
          /\ IF ~InRange(target_temperature)
             THEN /\ raised' = "HomeAssistantError"
                  /\ requests' = <<>>
                  /\ result' = None
                  /\ UNCHANGED sessionVars
             ELSE LET out == SendCommandSetTemp(device, RoundedTemp(target_temperature), ro, po, wo)
                  IN /\ raised' = IF out.resp.success THEN None ELSE "HomeAssistantError"
                     /\ requests' = out.reqs
                     /\ result' = out.resp
                     /\ auth_token' = out.session.auth_token
                     /\ refresh_token' = out.session.refresh_token
                     /\ auth_token_expire_date' = out.session.auth_token_expire_date
    /\ UNCHANGED <<loginVars, credVars, cacheVars, now, devVars, threadVars>>

NextClimate ==
    \/ Tick
    \/ Login
    \/ AsyncSetTemperature

SpecClimate == Init /\ [][NextClimate]_vars

\* the temperatures a request carries to the backend
TempsSent(req) ==
    IF req.method = "PATCH" THEN (IF "temp" \in DOMAIN req.body THEN {req.body.temp} ELSE {})
    ELSE IF req.method = "WS_WRITE" THEN {req.body[i].d : i \in {j \in 1..Len(req.body) : req.body[j].a = "p" /\ req.body[j].p[4] = "temp"}}
    ELSE {}

Transmitted == UNION {TempsSent(requests[i]) : i \in 1..Len(requests)}

Distance(a, b) == IF a < b THEN b - a ELSE a - b

\* C6: a set-temperature command outside 7.0..40.0 degrees raises without a
\* request to the backend; inside the range every temperature transmitted
\* is a multiple of 0.5 in 7.0..40.0 at most 0.25 from the input, a command
\* that passes the token check transmits one, and 21.3 goes out as 21.5
C6_SetTemperature ==
    op.name = "async_set_temperature" =>
        IF ~(140 <= op.temperature /\ op.temperature <= 800)
        THEN raised = "HomeAssistantError" /\ requests = <<>>
        ELSE /\ \A sent \in Transmitted :
                   /\ sent % 10 = 0
                   /\ 140 <= sent /\ sent <= 800
                   /\ Distance(sent, op.temperature) <= 5
                   /\ op.temperature = 426 => sent = 430
             /\ (PassedAuth /\ ~use_nexa_ws) => Cardinality(Transmitted) = 1
             /\ result.success => Cardinality(Transmitted) = 1

\* 21.3 degrees was sent to the backend as 21.5
C6_Witness ==
    /\ op.name = "async_set_temperature" /\ op.temperature = 426
    /\ Transmitted = {430} /\ result.success /\ raised = None

\* 6.9 degrees was refused
C6_WitnessRefused == op.name = "async_set_temperature" /\ op.temperature = 138 /\ raised = "HomeAssistantError"

\* a tie: 7.25 degrees was sent as 7.0 over the WebSocket
C6_WitnessTie ==
    /\ op.name = "async_set_temperature" /\ op.temperature = 145 /\ use_nexa_ws
    /\ Transmitted = {140}

-----------------------------------------------------------------------------
(* The device model as a state machine: a RointeDevice is constructed from *)
(* a payload, refreshed from later payloads, and read by the entities.     *)

\* the longest day string of the model's schedules
MaxLen == 2

Chars == {"C", "E", "O"}

Strings(n) == UNION {[1..k -> Chars] : k \in 0..n}

\* what a day of a schedule can hold
DayEntries == {NullDay} \cup {DayStr(chars) : chars \in Strings(MaxLen)}

\* the entries of the other days
Fillers == {NullDay, DayStr(<<"E", "C">>)}

DayKeys == {ToString(d) : d \in Days}

\* list schedules of up to MaxDay + 1 days: one day takes every entry
ListSchedules ==
    {ListSchedule(<<>>)} \cup
    UNION {{ListSchedule([j \in 1..n |-> IF j = i THEN e ELSE f]) : i \in 1..n, e \in DayEntries, f \in Fillers} : n \in 1..(MaxDay + 1)}

\* mapping schedules over every set of day keys: one day takes every entry
DictSchedules ==
    {DictSchedule(EmptyDict)} \cup
    UNION {{DictSchedule([k \in keys |-> IF k = i THEN e ELSE f]) : i \in keys, e \in DayEntries, f \in Fillers} : keys \in SUBSET DayKeys \ {{}}}

Schedules == {NoSchedule} \cup ListSchedules \cup DictSchedules

\* a full legacy payload
FullData ==
    [type |-> "radiator", product_version |-> "V2", name |-> "Room", nominal_power |-> 1000, power |-> I(2), status |-> S("none"),
     mode |-> S("auto"), temp |-> 380, temp_probe |-> 400, comfort |-> 420, eco |-> 360, ice |-> 140,
     ice_mode |-> FALSE, schedule |-> ListSchedule(<<DayStr(<<"C", "E">>)>>), status_warming |-> 0]

FullFirmware == [firmware_version_device |-> "1.0", hardware_version |-> "2.0"]

DeviceInfo(data) == [data |-> data, serialnumber |-> "SN1", firmware |-> FullFirmware]

Without(f, keys) == [k \in DOMAIN f \ keys |-> f[k]]

\* payloads over every schedule, in both modes
SchedulePayloads ==
    {DeviceInfo([FullData EXCEPT !.schedule = sch, !.mode = S(m)]) : sch \in Schedules, m \in {"manual", "auto"}}

\* payloads over power, probe temperature, heating status and mode
HeatingPayloads ==
    {DeviceInfo([FullData EXCEPT !.power = I(pw), !.status = S(st), !.temp_probe = tp, !.status_warming = sw, !.mode = S(m)]) :
        pw \in {1, 2}, st \in {"none", "off"}, tp \in {359, 360, 380, 420, 421}, sw \in 0..2, m \in {"manual", "auto"}}

\* payloads with every subset of these fields missing
OptionalDataKeys == {"type", "product_version", "power", "temp", "schedule"}

MissingPayloads ==
    {Without(DeviceInfo(Without(FullData, dk)), tk) : dk \in SUBSET OptionalDataKeys, tk \in SUBSET {"data", "serialnumber", "firmware"}}

\* what get_device hands over on the Nexa backend when the device has no
\* cached metadata
NexaWrapped == WrapNexaDevice("dev1", NexaDeviceData, [kind |-> "none"])

\* the user-mode bounds a payload carries: 15.0 and 30.0 degrees
UserModeBounds == [um_min_temp |-> 300, um_max_temp |-> 600]

\* payloads that carry the user-mode fields, over the product versions
UserModePayloads ==
    {DeviceInfo([UserModeBounds @@ [user_mode |-> um] @@ FullData EXCEPT !.product_version = pv]) :
        pv \in {"V2", "v2", "V1", "v1"}, um \in BOOLEAN}

\* payloads over the encodings of power: the boolean of the legacy backend,
\* the integer of the Nexa backend
PowerPayloads ==
    {DeviceInfo([FullData EXCEPT !.power = pw, !.status = S(st)]) :
        pw \in {B(TRUE), B(FALSE), I(1), I(2), S("2"), S("on"), S("")}, st \in {"none", "off"}}

ConstructPayloads == SchedulePayloads \cup HeatingPayloads \cup MissingPayloads \cup UserModePayloads \cup PowerPayloads \cup {NexaWrapped}

RefreshPayloads ==
    {DeviceInfo(FullData), NexaWrapped, Without(DeviceInfo(FullData), {"data"}),
     DeviceInfo(Without(FullData, {"type", "product_version", "schedule"}))} \cup
    {p \in UserModePayloads : p.data.product_version = "V2"} \cup
    {DeviceInfo([FullData EXCEPT !.power = B(TRUE)]),
     Without(DeviceInfo(FullData), {"firmware"}),
     [DeviceInfo([FullData EXCEPT !.type = "towel", !.name = "Bath"]) EXCEPT !.serialnumber = "SN2"]}

\* the energy record and the latest firmware fetched in the given poll
Fetched(poll) == [energy_data |-> "energy" \o ToString(poll), latest_fw |-> "1." \o ToString(poll)]

\* what the coordinator hands over with the payload of a later poll: those
\* fetched in it, or none
PollArguments(poll) == {[energy_data |-> None, latest_fw |-> None], Fetched(poll)}

\* RointeDevice(device_id, device_info, energy_data, latest_fw)
Construct ==
    /\ dev = NoDevice
    /\ \E device_info \in ConstructPayloads, args \in {Fetched(1)} :
          LET made == NewDevice("dev1", device_info, args.energy_data, args.latest_fw)
          IN /\ dev' = made.dev
             /\ dev_error' = made.error
             /\ op' = [name |-> "RointeDevice", device_info |-> device_info, energy_data |-> args.energy_data, latest_fw |-> args.latest_fw]
    /\ result' = None
    /\ UNCHANGED <<sessionVars, loginVars, credVars, cacheVars, now, requests, raised, calls, threadVars>>

\* device.update_data(device_info, energy_data, latest_fw)
Refresh ==
    /\ dev # NoDevice
    /\ \E device_info \in RefreshPayloads, args \in PollArguments(2) :
          LET updated == UpdateData(dev, device_info, args.energy_data, args.latest_fw)
          IN /\ dev' = updated.dev
             /\ dev_error' = updated.error
             /\ op' = [name |-> "update_data", device_info |-> device_info, energy_data |-> args.energy_data, latest_fw |-> args.latest_fw]
    /\ result' = None
    /\ UNCHANGED <<sessionVars, loginVars, credVars, cacheVars, now, requests, raised, calls, threadVars>>

\* the climate entity and the sensors read get_current_schedule_mode
ReadScheduleMode ==
    /\ dev # NoDevice
    /\ \E day_of_week \in Days, hour_index \in Hours :
          /\ op' = [name |-> "get_current_schedule_mode", day_of_week |-> day_of_week, hour_index |-> hour_index]
          /\ result' = GetCurrentScheduleMode(dev.schedule, day_of_week, hour_index)
    /\ UNCHANGED <<sessionVars, loginVars, credVars, cacheVars, now, requests, raised, calls, devVars, threadVars>>

\* the climate entity reads get_effective_target_temperature
ReadTarget ==
    /\ dev # NoDevice
    /\ \E day_of_week \in Days, hour_index \in Hours :
          /\ op' = [name |-> "get_effective_target_temperature", day_of_week |-> day_of_week, hour_index |-> hour_index]
          /\ result' = GetEffectiveTargetTemperature(dev, day_of_week, hour_index)
    /\ UNCHANGED <<sessionVars, loginVars, credVars, cacheVars, now, requests, raised, calls, devVars, threadVars>>

\* the climate entity reads hvac_action
ReadHvacAction ==
    /\ dev # NoDevice
    /\ \E day_of_week \in Days, hour_index \in Hours :
          /\ op' = [name |-> "hvac_action", day_of_week |-> day_of_week, hour_index |-> hour_index]
          /\ result' = HvacAction(dev, day_of_week, hour_index)
    /\ UNCHANGED <<sessionVars, loginVars, credVars, cacheVars, now, requests, raised, calls, devVars, threadVars>>

\* the "Heating" binary sensor reads is_on; the day and the hour are those
\* of the read
ReadHeatingBinarySensor ==
    /\ dev # NoDevice
    /\ \E day_of_week \in Days, hour_index \in Hours :
          /\ op' = [name |-> "RointeBinarySensor.is_on", day_of_week |-> day_of_week, hour_index |-> hour_index]
          /\ result' = HeatingBinarySensor(dev)
    /\ UNCHANGED <<sessionVars, loginVars, credVars, cacheVars, now, requests, raised, calls, devVars, threadVars>>

\* the "Heating Status" sensor reads _get_heating_status
ReadHeatingStatus ==
    /\ dev # NoDevice
    /\ \E day_of_week \in Days, hour_index \in Hours :
          /\ op' = [name |-> "_get_heating_status", day_of_week |-> day_of_week, hour_index |-> hour_index]
          /\ result' = GetHeatingStatus(dev, day_of_week, hour_index)
    /\ UNCHANGED <<sessionVars, loginVars, credVars, cacheVars, now, requests, raised, calls, devVars, threadVars>>

\* the schedule-status sensor reads _get_schedule_status
ReadScheduleStatus ==
    /\ dev # NoDevice
    /\ \E day_of_week \in Days, hour_index \in Hours :
          /\ op' = [name |-> "_get_schedule_status", day_of_week |-> day_of_week, hour_index |-> hour_index]
          /\ result' = GetScheduleStatus(dev.schedule, day_of_week, hour_index)
    /\ UNCHANGED <<sessionVars, loginVars, credVars, cacheVars, now, requests, raised, calls, devVars, threadVars>>

\* the effective-power sensor reads _get_effective_power
ReadEffectivePower ==
    /\ dev # NoDevice
    /\ \E day_of_week \in Days, hour_index \in Hours :
          /\ op' = [name |-> "_get_effective_power", day_of_week |-> day_of_week, hour_index |-> hour_index]
          /\ result' = GetEffectivePower(dev, day_of_week, hour_index)
    /\ UNCHANGED <<sessionVars, loginVars, credVars, cacheVars, now, requests, raised, calls, devVars, threadVars>>

\* a caller reads device.heating; the day and the hour are those of the read
ReadHeating ==
    /\ dev # NoDevice
    /\ \E day_of_week \in Days, hour_index \in Hours :
          /\ op' = [name |-> "heating", day_of_week |-> day_of_week, hour_index |-> hour_index]
          /\ result' = Heating(dev)
    /\ UNCHANGED <<sessionVars, loginVars, credVars, cacheVars, now, requests, raised, calls, devVars, threadVars>>

\* RointeHaClimate.max_temp
MaxTemp(d) == IF UserModeSupported(d) /\ d.user_mode THEN d.um_max_temp ELSE RADIATOR_TEMP_MAX

\* RointeHaClimate.min_temp
MinTemp(d) == IF UserModeSupported(d) /\ d.user_mode THEN d.um_min_temp ELSE RADIATOR_TEMP_MIN

\* the climate entity reads max_temp
ReadMaxTemp ==
    /\ dev # NoDevice
    /\ op' = [name |-> "max_temp"]
    /\ result' = MaxTemp(dev)
    /\ UNCHANGED <<sessionVars, loginVars, credVars, cacheVars, now, requests, raised, calls, devVars, threadVars>>

\* the climate entity reads min_temp
ReadMinTemp ==
    /\ dev # NoDevice
    /\ op' = [name |-> "min_temp"]
    /\ result' = MinTemp(dev)
    /\ UNCHANGED <<sessionVars, loginVars, credVars, cacheVars, now, requests, raised, calls, devVars, threadVars>>

InitDevice == Init /\ api_type = "auto"

NextDevice ==
    \/ Construct
    \/ Refresh
    \/ ReadScheduleMode
    \/ ReadTarget
    \/ ReadHvacAction
    \/ ReadHeatingBinarySensor
    \/ ReadHeatingStatus
    \/ ReadScheduleStatus
    \/ ReadEffectivePower
    \/ ReadHeating
    \/ ReadMaxTemp
    \/ ReadMinTemp

SpecDevice == InitDevice /\ [][NextDevice]_vars

-----------------------------------------------------------------------------
(* Properties of the device model *)

\* the entry a schedule holds for a day, NullDay when it holds none
EntryAt(schedule, day) ==
    IF schedule.shape = "list"
    THEN (IF day + 1 \in DOMAIN schedule.days THEN schedule.days[day + 1] ELSE NullDay)
    ELSE IF schedule.shape = "dict"
    THEN (IF ToString(day) \in DOMAIN schedule.entries THEN schedule.entries[ToString(day)] ELSE NullDay)
    ELSE NullDay

\* the character a schedule holds at [day][hour], "-" when it holds none
CharAt(schedule, day, hour) ==
    LET entry == EntryAt(schedule, day)
    IN IF entry.type = "str" /\ hour + 1 \in DOMAIN entry.chars THEN entry.chars[hour + 1] ELSE "-"

\* the slot the schedule of the device prescribes at the time of the last read
SlotNow == CharAt(dev.schedule, op.day_of_week, op.hour_index)

\* C7: for a schedule in either shape, every day and every hour,
\* get_current_schedule_mode returns Comfort exactly when the character at
\* [day][hour] is C, Eco exactly when it is E, and Unset otherwise: for any
\* other character, an absent schedule, a missing day, a short day string
C7_ScheduleMode ==
    op.name = "get_current_schedule_mode" =>
        /\ result = "COMFORT" <=> SlotNow = "C"
        /\ result = "ECO" <=> SlotNow = "E"
        /\ result = "NONE" <=> SlotNow \notin {"C", "E"}

\* an Eco hour was read from the second day of a mapping-shaped schedule
C7_Witness ==
    /\ op.name = "get_current_schedule_mode" /\ dev.schedule.shape = "dict"
    /\ op.day_of_week = 1 /\ op.hour_index = 1
    /\ SlotNow = "E" /\ result = "ECO"

\* Unset was read from a day string shorter than the hour
C7_WitnessShort ==
    /\ op.name = "get_current_schedule_mode" /\ dev.schedule.shape = "list"
    /\ EntryAt(dev.schedule, op.day_of_week).type = "str"
    /\ Len(EntryAt(dev.schedule, op.day_of_week).chars) = 1 /\ op.hour_index = 1
    /\ result = "NONE"

\* the target temperature the claims prescribe for the device at the time
\* of the last read
ExpectedTarget ==
    IF dev.mode = "manual" THEN dev.temp
    ELSE IF SlotNow = "C" THEN dev.comfort_temp
    ELSE IF SlotNow = "E" THEN dev.eco_temp
    ELSE dev.ice_temp

\* C8: the effective target temperature of a device in auto mode is its
\* comfort temperature in a Comfort slot, its eco temperature in an Eco slot
\* and its ice temperature in an Unset slot; in manual mode it is temp,
\* whatever the schedule holds
C8_EffectiveTarget ==
    (op.name = "get_effective_target_temperature" /\ dev.mode \in {"manual", "auto"}) => result = ExpectedTarget

\* the ice temperature was read as the target of an auto device in an Unset slot
C8_Witness ==
    /\ op.name = "get_effective_target_temperature" /\ dev.mode = "auto"
    /\ SlotNow = "O" /\ result = dev.ice_temp /\ dev.ice_temp # dev.temp

\* the set-point was read as the target of a manual device in a Comfort slot
C8_WitnessManual ==
    /\ op.name = "get_effective_target_temperature" /\ dev.mode = "manual"
    /\ SlotNow = "C" /\ result = dev.temp /\ dev.temp # dev.comfort_temp

\* C9: the HVAC action is Off when the device is powered off; otherwise Idle
\* exactly when the probe temperature is at or above the effective target
\* and Heating exactly when it is below, whatever statusWarming reports
C9_HvacAction ==
    (op.name = "hvac_action" /\ dev.mode \in {"manual", "auto"}) =>
        /\ ~dev.power => result = "OFF"
        /\ dev.power => /\ result = "IDLE" <=> dev.temp_probe >= ExpectedTarget
                        /\ result = "HEATING" <=> dev.temp_probe < ExpectedTarget

\* Heating was derived for a device that reports statusWarming 0
C9_Witness ==
    /\ op.name = "hvac_action" /\ dev.power /\ dev.status_warming = 0
    /\ dev.temp_probe < ExpectedTarget /\ result = "HEATING"

\* Idle was derived for a device that reports statusWarming 2
C9_WitnessIdle ==
    /\ op.name = "hvac_action" /\ dev.power /\ dev.status_warming = 2
    /\ dev.temp_probe = ExpectedTarget /\ result = "IDLE"

\* Off was derived for a device powered off
C9_WitnessOff == op.name = "hvac_action" /\ ~dev.power /\ result = "OFF"

\* C10: constructing a device from a payload and refreshing it never fails,
\* whatever fields the payload lacks
C10_ParsingNeverFails == dev_error = None

\* the construction from a payload that lacks only the fields update_data
\* reads with a default succeeds
C10_DefaultsApply ==
    (op.name \in {"RointeDevice", "update_data"} /\ dev_error = None /\ "data" \in DOMAIN op.device_info) =>
        /\ "temp" \notin DOMAIN op.device_info.data => dev.temp = 0
        /\ "schedule" \notin DOMAIN op.device_info.data => dev.schedule = ListSchedule(<<>>)
        /\ "firmware" \notin DOMAIN op.device_info => dev.firmware_version = None

\* the construction from a Nexa read wrapped without a cached serial failed
C10_NexaWrappedFails ==
    /\ op.name = "RointeDevice" /\ op.device_info = NexaWrapped
    /\ dev_error = "KeyError" /\ dev = NoDevice

\* a refresh from a payload without its data block failed
C10_RefreshFails == op.name = "update_data" /\ dev_error = "KeyError"

-----------------------------------------------------------------------------
(* Error propagation of the public operations *)

\* C11: no public operation lets an exception escape: whatever the backend
\* answers, the last operation returned an ApiResponse
C11_NoOperationRaises == raised = None

\* get_local_id was answered 200 with a body that lacks users[0].localId and
\* the KeyError escaped it
C11_LocalIdRaises ==
    /\ op.name = "get_local_id" /\ raised = "KeyError" /\ result = None
    /\ Len(requests) >= 1 /\ requests[Len(requests)].url = "AUTH_ACCT_INFO_URL"

\* get_installation_devices met a legacy installation without a zones entry
\* and the KeyError escaped it
C11_DevicesRaise ==
    /\ op.name = "get_installation_devices" /\ ~use_nexa_ws
    /\ "zones" \notin DOMAIN op.legacy
    /\ raised = "KeyError" /\ result = None

\* the legacy energy fetch met an hourly answer without its energy keys
C11_EnergyRaises ==
    /\ op.name = "get_latest_energy_stats" /\ ~use_nexa_ws
    /\ raised = "KeyError" /\ result = None

\* the operations that return a structured result for every answer drawn
\* here: the login, the device writes and, get_local_id apart, every
\* operation of a Nexa session
C11_StructuredResults ==
    (\/ op.name \in {"initialize_authentication", "set_device_temp", "set_device_preset", "set_device_mode"}
     \/ (use_nexa_ws /\ op.name \notin {"__init__", "get_local_id"}))
        => (raised = None /\ result.success \in BOOLEAN)

-----------------------------------------------------------------------------
(* Failure reporting of the WebSocket calls *)

\* the WebSocket calls among the requests of the last operation
WsCalls(reqs) == SelectSeq(reqs, LAMBDA r : r.method \in {"WS_WRITE", "WS_READ"})

\* what a write can meet without its acknowledgements arriving
LostAcks == {"ack_timeout", "ack_malformed"}

\* what a WebSocket call can meet that is a failure of the call
WsFailures == {"connect_timeout", "transport_error", "send_error", "timeout", "malformed"} \cup LostAcks

NexaWrite == use_nexa_ws /\ op.name \in {"set_device_temp", "set_device_preset", "set_device_mode"}

\* a Nexa write whose WebSocket call met one of the given answers fails, and
\* a Nexa get_device all of whose reads met one of them fails
WsFailureReported(answers) ==
    LET w == WsCalls(requests)
    IN /\ (NexaWrite /\ Len(w) = 1 /\ w[1].answer \in answers) => ~result.success
       /\ (op.name = "get_device" /\ use_nexa_ws /\ Len(w) >= 1 /\ \A i \in 1..Len(w) : w[i].answer \in answers)
             => (~result.success /\ result.data = None)

\* C12: a WebSocket call that met a connect timeout, a response timeout, a
\* transport error or a malformed frame is reported as a failure; a write
\* whose acknowledgements did not arrive does not return success
C12_WsFailureReported == WsFailureReported(WsFailures)

\* C12 for the failures other than missing acknowledgements of a write
C12_ExceptLostAcks == WsFailureReported(WsFailures \ LostAcks)

\* a Nexa write returned success although no acknowledgement arrived
C12_LostAcksSucceed ==
    /\ NexaWrite /\ Len(WsCalls(requests)) = 1
    /\ WsCalls(requests)[1].answer \in LostAcks
    /\ result.success /\ result.data = <<>>

\* a Nexa write failed on a connect timeout and a Nexa device read failed
\* after each of its reads timed out
C12_WitnessWriteFails == NexaWrite /\ Len(WsCalls(requests)) = 1 /\ WsCalls(requests)[1].answer = "connect_timeout" /\ ~result.success
C12_WitnessReadFails ==
    /\ op.name = "get_device" /\ use_nexa_ws /\ ~result.success
    /\ Len(WsCalls(requests)) = 2 /\ \A i \in 1..2 : WsCalls(requests)[i].answer = "timeout"

-----------------------------------------------------------------------------
(* Switch and number entities: the raw-field writers *)

\* field_name of SWITCH_DESCRIPTIONS, in order
SwitchFields == <<"windows_open_mode", "silence_mode", "block_local", "block_remote", "pir_mode", "dont_disturb_mode", "ice_mode", "user_mode">>

\* field_name of NUMBER_DESCRIPTIONS, in order
NumberFields == <<"comfort", "eco", "ice", "um_max_temp", "um_min_temp">>

\* available_fn of the switch and number descriptions
EntityAvailable(device, field_name) ==
    field_name \in {"user_mode", "um_max_temp", "um_min_temp"} => UserModeSupported(device)

\* the value RointeSwitch._set_value hands to the write: the bool itself for
\* ice_mode and user_mode, 1 or 0 for the other fields
SwitchWireValue(field_name, value) ==
    IF field_name \in {"ice_mode", "user_mode"} THEN B(value)
    ELSE I(IF value THEN 1 ELSE 0)

\* RointeSwitch._set_value and RointeNumber._set_value, given the value put
\* on the wire: [resp, reqs, session]; both return None whatever the write
\* returned, and neither has a legacy branch
EntitySetValue(device, field_name, wire_value, ro, wo) ==
    LET write == WriteViaWebsocket(Session, now, ro, GetNexaDeviceKey(device), (field_name :> wire_value), wo)
    IN IF use_nexa_ws
       THEN [resp |-> None, reqs |-> write.reqs, session |-> write.session]
       ELSE [resp |-> None, reqs |-> <<>>, session |-> Session]

\* the values the number entities are set to
NumberValues == {140, 415}

SwitchSetValue ==
    /\ \E device \in {ClimateRadiator}, i \in 1..Len(SwitchFields), value \in BOOLEAN,
          ro \in Refreshes, wo \in Only(WsWriteOutcomes, use_nexa_ws) :
          /\ EntityAvailable(device, SwitchFields[i])
          /\ Complete([name |-> "RointeSwitch._set_value", field_name |-> SwitchFields[i], value |-> SwitchWireValue(SwitchFields[i], value), transport |-> wo.kind],
                      EntitySetValue(device, SwitchFields[i], SwitchWireValue(SwitchFields[i], value), ro, wo))
    /\ UNCHANGED <<loginVars, credVars, cacheVars, now, devVars, threadVars>>

NumberSetValue ==
    /\ \E device \in {ClimateRadiator}, i \in 1..Len(NumberFields), value \in NumberValues,
          ro \in Refreshes, wo \in Only(WsWriteOutcomes, use_nexa_ws) :
          /\ EntityAvailable(device, NumberFields[i])
          /\ Complete([name |-> "RointeNumber._set_value", field_name |-> NumberFields[i], value |-> I(value), transport |-> wo.kind],
                      EntitySetValue(device, NumberFields[i], value, ro, wo))
    /\ UNCHANGED <<loginVars, credVars, cacheVars, now, devVars, threadVars>>

NextEntity ==
    \/ Tick
    \/ Login
    \/ SwitchSetValue
    \/ NumberSetValue

SpecEntity == Init /\ [][NextEntity]_vars

\* the last operation was a switch or number write
EntityWrite == op.name \in {"RointeSwitch._set_value", "RointeNumber._set_value"}

\* the token was valid when the entity write was called, and on a Nexa
\* session every frame of the write was acknowledged
WriteCouldReach == EntityWrite /\ ~NeedsRefresh(Session, op.at) /\ (use_nexa_ws => op.transport = "acked")

\* the last operation sent a write of the field it was asked to write, with
\* the value it was asked to write
FieldWritten ==
    \E i \in 1..Len(requests) :
        \/ /\ requests[i].method = "PATCH"
           /\ op.field_name \in DOMAIN requests[i].body
        \/ /\ requests[i].method = "WS_WRITE"
           /\ \E j \in 1..Len(requests[i].body) :
                 /\ requests[i].body[j].a = "p"
                 /\ requests[i].body[j].p[4] = op.field_name
                 /\ requests[i].body[j].d = op.value.v

\* C13: every switch and number write that reaches the backend results in
\* a backend write of the named field with the requested value
C13_FieldWritten == WriteCouldReach => FieldWritten

\* C13 for the comfort, eco and ice numbers of a Nexa session
C13_NexaPresetTemps ==
    (WriteCouldReach /\ use_nexa_ws /\ op.name = "RointeNumber._set_value" /\ op.field_name \in {"comfort", "eco", "ice"})
        => FieldWritten

\* a switch was set on a legacy session and nothing was sent
C13_LegacyNothingSent ==
    /\ WriteCouldReach /\ ~use_nexa_ws /\ login_succeeded
    /\ op.name = "RointeSwitch._set_value" /\ op.field_name = "windows_open_mode"
    /\ requests = <<>>

\* a switch and a user-mode limit were set on a Nexa session and
\* _write_via_websocket found no field it writes
C13_NexaFieldDropped ==
    /\ WriteCouldReach /\ use_nexa_ws
    /\ op.field_name \in {"silence_mode", "um_max_temp"}
    /\ requests = <<>>

\* a comfort temperature was written on a Nexa session
C13_WitnessComfort ==
    /\ WriteCouldReach /\ use_nexa_ws /\ op.field_name = "comfort" /\ FieldWritten

-----------------------------------------------------------------------------
(* Preset and mode writes *)

\* the values the put frames of a WebSocket write carry for a field
PutValues(req, field) ==
    {req.body[j].d : j \in {k \in 1..Len(req.body) : req.body[k].a = "p" /\ req.body[k].p[4] = field}}

\* the WebSocket write got all its frames out
FramesSent(req) == req.answer \notin {"connect_timeout", "send_error"}

LastPreset == op.name = "set_device_preset" /\ PassedAuth

\* a valid preset is written as manual mode, power on and the preset's
\* temperature of the device
ValidPresetWritten ==
    (LastPreset /\ op.preset_mode \in Presets) =>
        LET w == Writes(requests)
            temp == PresetTemp(op.device, op.preset_mode)
        IN /\ Len(w) = 1
           /\ w[1].method = "PATCH" =>
                 /\ ~use_nexa_ws
                 /\ PatchFields(w[1]) = [power |-> TRUE, mode |-> "manual", temp |-> temp, status |-> op.preset_mode]
           /\ (w[1].method = "WS_WRITE" /\ FramesSent(w[1])) =>
                 /\ use_nexa_ws
                 /\ PutValues(w[1], "temp") = {temp}
                 /\ PutValues(w[1], "mode") = {0}
                 /\ PutValues(w[1], "power") = {2}

\* another preset value is refused without a backend write
InvalidPresetRefused ==
    (LastPreset /\ op.preset_mode \notin Presets) => (~result.success /\ Writes(requests) = <<>>)

\* C14: set_device_preset writes manual mode, power on and the preset
\* temperature for comfort, eco and ice, and for any other preset value it
\* returns failure and sends no backend write, on both backends
C14_PresetWrite == ValidPresetWritten /\ InvalidPresetRefused

\* C14 except for an invalid preset on the legacy backend
C14_ExceptLegacyInvalid == ValidPresetWritten /\ (use_nexa_ws => InvalidPresetRefused)

\* an invalid preset on the legacy backend was PATCHed with a body that
\* holds nothing but the sync timestamp, and success was returned
C14_LegacyInvalidPatched ==
    /\ LastPreset /\ ~use_nexa_ws /\ op.preset_mode = "none"
    /\ Len(Writes(requests)) = 1
    /\ DOMAIN PatchFields(Writes(requests)[1]) = {}
    /\ result.success

\* an eco preset was written on the legacy backend, and an invalid preset
\* was refused on the Nexa backend
C14_WitnessEco == LastPreset /\ ~use_nexa_ws /\ op.preset_mode = "eco" /\ result.success /\ Len(Writes(requests)) = 1
C14_WitnessNexaRefused == LastPreset /\ use_nexa_ws /\ op.preset_mode = "none" /\ ~result.success /\ requests = <<>>

\* a legacy set_device_mode('auto') that passed the token check
AutoSwitch == op.name = "set_device_mode" /\ op.hvac_mode = "auto" /\ ~use_nexa_ws /\ PassedAuth

\* the schedule slot of the device at the time of the last set_device_mode
SlotAtSwitch == GetCurrentScheduleMode(op.device.schedule, op.day_of_week, op.hour_index)

\* the temperature of the effective-target rule for a slot
SlotTemp(device, slot) ==
    IF slot = "COMFORT" THEN device.comfort_temp
    ELSE IF slot = "ECO" THEN device.eco_temp
    ELSE device.ice_temp

\* the first PATCH carries the temperature of the current slot and the
\* second, sent when the first succeeded, mode auto with power on
AutoSequence ==
    LET w == Writes(requests)
    IN /\ Len(w) \in {1, 2}
       /\ PatchFields(w[1]) = [temp |-> SlotTemp(op.device, SlotAtSwitch)]
       /\ w[1].answer = "ok" => Len(w) = 2
       /\ Len(w) = 2 => PatchFields(w[2]) = [mode |-> "auto", power |-> TRUE]

\* C15: on the legacy backend set_device_mode('auto') first PATCHes the
\* comfort temperature in a Comfort slot, the eco temperature in an Eco slot
\* and the ice temperature in an Unset slot, and only then PATCHes mode auto
C15_AutoTemperature == AutoSwitch => AutoSequence

\* C15 for every slot but an Unset slot of a device whose frost protection
\* is off
C15_ExceptUnsetWithoutIce == (AutoSwitch /\ (SlotAtSwitch # "NONE" \/ op.device.ice_mode)) => AutoSequence

\* in an Unset slot with frost protection off the neutral temperature was
\* PATCHed, not the ice temperature, and the switch to auto succeeded
C15_NeutralInUnsetSlot ==
    /\ AutoSwitch /\ SlotAtSwitch = "NONE" /\ ~op.device.ice_mode
    /\ PatchFields(Writes(requests)[1]) = [temp |-> NeutralTemp]
    /\ NeutralTemp # op.device.ice_temp
    /\ result.success

\* the switch to auto in an Eco slot, and in an Unset slot with frost
\* protection on
C15_WitnessEco == AutoSwitch /\ SlotAtSwitch = "ECO" /\ result.success /\ Len(Writes(requests)) = 2
C15_WitnessIce == AutoSwitch /\ SlotAtSwitch = "NONE" /\ op.device.ice_mode /\ result.success

-----------------------------------------------------------------------------
(* Login fallback and session states *)

\* a login with backend auto whose legacy request met one of the answers
\* sent the Nexa login request right after the legacy one
FallbackAfter(answers) ==
    (LastLogin /\ api_type = "auto" /\ op.legacy \in answers) =>
        /\ Len(requests) >= 2
        /\ requests[1].url = "AUTH_VERIFY_URL"
        /\ requests[2].url = "NEXA_LOGIN_URL"
        /\ ~result.success => op.nexa # "ok"

\* C16: with backend auto every legacy login failure - a non-200 status, a
\* network error, a 200 answer without a token - is followed by a Nexa
\* login attempt before failure is reported
C16_EveryFailureFallsBack == FallbackAfter(LegacyLoginOutcomes \ {"ok"})

\* C16 for the non-200 statuses
C16_StatusFallsBack == FallbackAfter({"400", "500"})

\* with backend auto a network error of the legacy request, and a 200
\* answer without a token, was reported with no Nexa request sent
C16_NetworkErrorReported ==
    /\ LastLogin /\ api_type = "auto" /\ op.legacy = "network" /\ op.nexa = "ok"
    /\ Len(requests) = 1 /\ requests[1].url = "AUTH_VERIFY_URL"
    /\ ~result.success
C16_NoTokenReported ==
    /\ LastLogin /\ api_type = "auto" /\ op.legacy = "no_token" /\ op.nexa = "ok"
    /\ Len(requests) = 1 /\ requests[1].url = "AUTH_VERIFY_URL"
    /\ ~result.success

\* with backend auto a 500 answer was followed by a failed Nexa login
C16_WitnessStatus ==
    /\ LastLogin /\ api_type = "auto" /\ op.legacy = "500" /\ op.nexa = "fb_status"
    /\ Len(requests) = 3 /\ ~result.success

\* the token refresh the last operation attempted was refused
RefreshFailed ==
    \E i \in 1..Len(requests) : requests[i].url = "AUTH_REFRESH_ENDPOINT" /\ requests[i].answer # "ok"

\* the session is authenticated only after a successful login or refresh,
\* and a failed login leaves it unauthenticated
AuthenticatedOnlyAfterSuccess ==
    /\ IsLoggedIn => login_succeeded
    /\ auth_token # None => login_succeeded
    /\ (LastLogin /\ ~result.success) => (~IsLoggedIn /\ auth_token = None)

\* C17: after a failed token refresh the session is unauthenticated -
\* is_logged_in() is false and no auth token is held - until a login
\* succeeds, and it is authenticated only after a successful login or a
\* successful refresh
C17_SessionStates ==
    /\ RefreshFailed => (~IsLoggedIn /\ auth_token = None)
    /\ AuthenticatedOnlyAfterSuccess

\* C17 without the effect it claims for a failed refresh
C17_ExceptFailedRefresh == AuthenticatedOnlyAfterSuccess

\* the token endpoint refused to refresh an expired token and the session
\* still holds that token and reports is_logged_in()
C17_StaleSessionKept ==
    /\ RefreshFailed /\ requests[1].answer = "status"
    /\ IsLoggedIn /\ auth_token # None
    /\ NeedsRefresh(Session, now)
    /\ ~result.success

\* a login failed after an earlier one had succeeded: the session is
\* unauthenticated again
C17_WitnessLoggedOut == LastLogin /\ ~result.success /\ login_succeeded /\ ~IsLoggedIn /\ auth_token = None

-----------------------------------------------------------------------------
(* Heating states shown to the user *)

\* the last operation read one of the heating states
HeatingRead == op.name \in {"hvac_action", "RointeBinarySensor.is_on", "_get_heating_status", "heating"}

\* the state read reports heating
ReportsHeating ==
    \/ op.name = "hvac_action" /\ result = "HEATING"
    \/ op.name = "_get_heating_status" /\ result = "heating"
    \/ op.name \in {"RointeBinarySensor.is_on", "heating"} /\ result = TRUE

\* at the time of the read the device is powered off or its probe is at or
\* above the effective target
CannotBeHeating == ~dev.power \/ dev.temp_probe >= ExpectedTarget

\* C18: no heating state shown to the user (the HVAC action, the Heating
\* binary sensor, the heating-status sensor, the heating property of the
\* device) reports heating while the device is powered off or its probe
\* temperature is at or above the effective target, even with statusWarming 2
C18_NoHeatingFromStatusAlone ==
    (HeatingRead /\ dev.mode \in {"manual", "auto"} /\ CannotBeHeating) => ~ReportsHeating

\* the HVAC action never reports heating in that case, and the heating-status
\* sensor never does while the probe is at or above the target
C18_ExceptStatusReads ==
    (HeatingRead /\ dev.mode \in {"manual", "auto"}) =>
        /\ (op.name = "hvac_action" /\ CannotBeHeating) => ~ReportsHeating
        /\ (op.name = "_get_heating_status" /\ dev.temp_probe >= ExpectedTarget) => ~ReportsHeating

\* the Heating binary sensor was on for a powered device whose probe is above
\* the target
C18_BinarySensorAtTarget ==
    /\ op.name = "RointeBinarySensor.is_on" /\ dev.power /\ dev.mode = "auto"
    /\ dev.temp_probe > ExpectedTarget /\ dev.status_warming = 2 /\ result = TRUE

\* the heating property was true for a device powered off
C18_PropertyWhenOff ==
    /\ op.name = "heating" /\ ~dev.power /\ dev.mode = "manual"
    /\ dev.status_warming = 2 /\ result = TRUE

\* the heating-status sensor reported heating for a device powered off
C18_StatusWhenOff ==
    /\ op.name = "_get_heating_status" /\ ~dev.power /\ dev.mode = "auto"
    /\ dev.temp_probe < ExpectedTarget /\ dev.status_warming = 2 /\ result = "heating"

\* the heating-status sensor reported idle for a powered device that reports
\* statusWarming 2 with its probe at the target
C18_WitnessIdle ==
    /\ op.name = "_get_heating_status" /\ dev.power /\ dev.status_warming = 2
    /\ dev.temp_probe = ExpectedTarget /\ result = "idle"

-----------------------------------------------------------------------------
(* User mode *)

\* C19: a device whose product version is not v2 holds user-mode bounds of 0
\* and user mode off after its construction and after every refresh, whatever
\* the payloads carry; user_mode_supported is true exactly for product version
\* v2; the selectable minimum and maximum of the climate entity are the
\* user-mode bounds when user mode is supported and on, and 7.0 and 40.0
\* degrees otherwise
C19_UserMode ==
    dev # NoDevice =>
        /\ dev.product_version # "v2" => (dev.um_min_temp = 0 /\ dev.um_max_temp = 0 /\ dev.user_mode = FALSE)
        /\ UserModeSupported(dev) <=> dev.product_version = "v2"
        /\ op.name = "max_temp" => result = (IF dev.product_version = "v2" /\ dev.user_mode THEN dev.um_max_temp ELSE 800)
        /\ op.name = "min_temp" => result = (IF dev.product_version = "v2" /\ dev.user_mode THEN dev.um_min_temp ELSE 140)

\* a v1 device refreshed from a payload that carries user mode on and both
\* bounds holds none of them, and its maximum was read as 40.0 degrees
C19_Witness ==
    /\ op.name = "max_temp" /\ dev.product_version = "v1"
    /\ "user_mode" \in DOMAIN dev.raw_data /\ dev.raw_data.user_mode /\ dev.raw_data.um_max_temp = 600
    /\ dev.raw_data.product_version = "V2"
    /\ dev.user_mode = FALSE /\ dev.um_max_temp = 0 /\ result = 800

\* the minimum of a v2 device with user mode on was read as its user-mode bound
C19_WitnessUserMode ==
    /\ op.name = "min_temp" /\ dev.product_version = "v2" /\ dev.user_mode
    /\ result = 300

\* the maximum of a v2 device with user mode off was read as 40.0 degrees
C19_WitnessUserModeOff ==
    /\ op.name = "max_temp" /\ dev.product_version = "v2" /\ ~dev.user_mode
    /\ dev.um_max_temp = 600 /\ result = 800

-----------------------------------------------------------------------------
(* What a refresh keeps of the previous state *)

\* the step is a refresh that succeeded, from a payload a device can be
\* constructed from
RefreshStep == op'.name = "update_data" /\ dev_error' = None /\ InitKeysPresent(op'.device_info)

\* the device that the payload and the arguments of the refresh alone describe
FromPayloadOnly == NewDevice(dev.id, op'.device_info, op'.energy_data, op'.latest_fw).dev

\* the fields the claim lets survive when the refresh does not carry them
CarriedOver == {"energy_data", "firmware_version", "hardware_version"}

\* the fields __init__ sets and those update_data derives from them
SetAtConstruction == {"type", "product_version", "serialnumber", "um_max_temp", "um_min_temp", "user_mode"}

\* the refresh leaves in these fields what the payload alone describes
Recomputed(fields) == \A f \in fields : dev'[f] = FromPayloadOnly[f]

\* the refresh keeps the energy record known before when it brings none
EnergyKept == dev'.energy_data = (IF op'.energy_data # None THEN op'.energy_data ELSE dev.energy_data)

\* the refresh keeps the firmware and hardware versions known before when
\* its payload has no firmware block
FirmwareKept ==
    IF "firmware" \in DOMAIN op'.device_info
    THEN Recomputed({"firmware_version", "hardware_version"})
    ELSE dev'.firmware_version = dev.firmware_version /\ dev'.hardware_version = dev.hardware_version

\* C20: a refresh recomputes every field of the device from the new payload
\* only, except that the energy record and the firmware and hardware versions
\* known before are kept when the refresh does not carry them; no other field
\* of the previous state survives
C20_RefreshFromPayload ==
    [][RefreshStep => (Recomputed(DOMAIN dev' \ CarriedOver) /\ EnergyKept /\ FirmwareKept)]_vars

\* the energy half of the claim alone
C20_EnergyKept == [][RefreshStep => EnergyKept]_vars

\* the firmware half of the claim alone
C20_FirmwareKept == [][RefreshStep => FirmwareKept]_vars

\* the last half of the claim alone: nothing else survives
C20_NothingElseSurvives == [][RefreshStep => Recomputed(DOMAIN dev' \ CarriedOver)]_vars

\* what a refresh does: every field but those fixed at the construction is
\* what the payload and the arguments alone describe, the energy record and
\* the versions included, and the fields fixed at the construction survive
C20_ExceptConstructionFields ==
    [][RefreshStep =>
        /\ Recomputed(DOMAIN dev' \ SetAtConstruction)
        /\ dev'.energy_data = op'.energy_data
        /\ "firmware" \notin DOMAIN op'.device_info => (dev'.firmware_version = None /\ dev'.hardware_version = None)
        /\ \A f \in {"type", "product_version", "serialnumber"} : dev'[f] = dev[f]]_vars

-----------------------------------------------------------------------------
(* Power of a parsed payload *)

\* the last operation parsed a payload that carries a power field
PowerParsed ==
    /\ op.name \in {"RointeDevice", "update_data"} /\ dev_error = None
    /\ "power" \in DOMAIN op.device_info.data

\* the power field and the status of the payload parsed last
PayloadPower == op.device_info.data.power

PayloadStatus == Get(op.device_info.data, "status", S("none")).v

\* C21: a legacy payload whose power is the boolean true and whose status is
\* not off parses to power on, one whose power is false parses to power off,
\* and a Nexa payload parses to power on exactly when its integer power is 2
C21_PowerParsed ==
    PowerParsed =>
        /\ (PayloadPower.t = "bool" /\ PayloadPower.v /\ PayloadStatus # "off") => dev.power
        /\ (PayloadPower.t = "bool" /\ ~PayloadPower.v) => ~dev.power
        /\ PayloadPower.t = "int" => (dev.power <=> PayloadPower.v = 2)

\* what the parser does: a boolean power parses to power off whatever its
\* value, an integer power to power on exactly when it is 2 and the status is
\* not off
C21_ExceptBooleanTrue ==
    PowerParsed =>
        /\ PayloadPower.t = "bool" => ~dev.power
        /\ PayloadPower.t = "int" => (dev.power <=> (PayloadPower.v = 2 /\ PayloadStatus # "off"))

\* a payload with power true and status none was parsed to power off
C21_BooleanTrueOff ==
    /\ PowerParsed /\ PayloadPower.t = "bool" /\ PayloadPower.v /\ PayloadStatus = "none"
    /\ ~dev.power

\* a refresh with power true turned off a device that was on: the payload
\* carries what set_device_temp writes
C21_RefreshTurnsOff ==
    /\ op.name = "update_data" /\ PowerParsed /\ PayloadPower.t = "bool" /\ PayloadPower.v
    /\ ~dev.power /\ dev.preset = "none"

\* a payload with the integer power 2 and status none was parsed to power on
C21_WitnessNexaOn ==
    /\ PowerParsed /\ PayloadPower.t = "int" /\ PayloadPower.v = 2 /\ PayloadStatus = "none"
    /\ dev.power

-----------------------------------------------------------------------------
(* Messages of the failure results *)

\* the last operation returned a failure result
FailureReturned == op.name # "__init__" /\ raised = None /\ ~result.success

\* the last request of the operation was a PATCH the backend rejected
PatchRejected ==
    /\ Len(requests) > 0
    /\ requests[Len(requests)].method = "PATCH"
    /\ requests[Len(requests)].answer = "rejected"

\* C22: every failure result carries an error message, and a backend
\* rejection is reported with its status code, the PATCH writes of
\* temperature, preset and mode included
C22_FailuresExplained ==
    FailureReturned =>
        /\ result.error_message # None
        /\ PatchRejected => result.error_message = "PATCH returned status"

\* every failure result carries an error message unless it reports a PATCH
\* that was rejected
C22_ExceptRejectedPatch ==
    (FailureReturned /\ ~PatchRejected) => result.error_message # None

\* a temperature write rejected by the backend returned a failure without
\* any message
C22_RejectedWithoutMessage ==
    /\ op.name = "set_device_temp" /\ FailureReturned /\ PatchRejected
    /\ result.error_message = None

\* a mode write whose second PATCH was rejected returned a failure without
\* any message
C22_SecondPatchWithoutMessage ==
    /\ op.name = "set_device_mode" /\ FailureReturned /\ PatchRejected
    /\ Len(requests) = 2 /\ result.error_message = None

\* a temperature write that met a network error returned a failure with a
\* message
C22_WitnessNetwork ==
    /\ op.name = "set_device_temp" /\ FailureReturned
    /\ Len(requests) > 0 /\ requests[Len(requests)].method = "PATCH"
    /\ requests[Len(requests)].answer = "network"
    /\ result.error_message = "Communications error"

-----------------------------------------------------------------------------
(* Firmware map on the Nexa backend *)

\* the last operation read the firmware map on a Nexa session
NexaFirmwareRead == op.name = "get_latest_firmware" /\ use_nexa_ws

\* C23: on a Nexa session get_latest_firmware returns a successful result
\* with an empty map and issues no backend request, whatever the state of
\* the session, a missing or an expired token included
C23_NexaFirmwareEmpty ==
    NexaFirmwareRead =>
        /\ raised = None
        /\ requests = <<>>
        /\ result.success /\ result.error_message = None
        /\ result.data = EmptyDict

\* the empty map was returned on a Nexa session whose token had expired,
\* without a refresh
C23_Witness ==
    /\ NexaFirmwareRead /\ auth_token # None /\ NeedsRefresh(Session, op.at)
    /\ result.success /\ result.data = EmptyDict /\ requests = <<>>

\* the empty map was returned on a Nexa session that holds no token
C23_WitnessNoToken ==
    /\ NexaFirmwareRead /\ auth_token = None
    /\ result.success /\ requests = <<>>

-----------------------------------------------------------------------------
(* The hourly retries of the legacy energy fetch *)

\* the last operation was a legacy energy fetch
LegacyEnergyFetch == op.name = "get_latest_energy_stats" /\ ~use_nexa_ws

IsHourly(req) == req.url = "FIREBASE_DEVICE_ENERGY_PATH_BY_ID"

\* the requests the fetch sent to the hourly endpoint, in order
HourlyRequests == SelectSeq(requests, IsHourly)

C24_WitnessLastTry ==
    /\ LegacyEnergyFetch /\ Len(HourlyRequests) = 5 /\ HourlyRequests[5].answer = "ok"
    /\ raised = None /\ result.success /\ result.data.hours_back = 4

\* the second hour was rejected: the fetch failed after two requests
C24_WitnessRejected ==
    /\ LegacyEnergyFetch /\ Len(HourlyRequests) = 2 /\ HourlyRequests[2].answer = "rejected"
    /\ raised = None /\ ~result.success

-----------------------------------------------------------------------------
(* The energy estimate of the Nexa backend *)

\* the last operation asked the Nexa estimator for the energy of a device
\* and a statistics snapshot was at hand
EstimatorRan ==
    /\ op.name = "get_latest_energy_stats" /\ use_nexa_ws /\ op.installation_id # None
    /\ ~StatsFalsy(nexa_installation_energy)

\* the snapshot the estimate was computed from
Snapshot == nexa_installation_energy[1]

\* the total energy of the snapshot, 0 when it names none
TotalEnergy == Get(Snapshot, "energy", 0)

\* the snapshot has a positive total cost and at least one zone
HasCostData == Get(Snapshot, "cost", 0) > 0 /\ Len(Get(Snapshot, "zones", <<>>)) > 0

\* the serial the estimator looks the device up by
EstimatedSerial ==
    IF op.device_id \in DOMAIN nexa_device_cache /\ Truthy(Get(nexa_device_cache[op.device_id], "serialNumber", None))
    THEN nexa_device_cache[op.device_id].serialNumber
    ELSE op.device_id

ZoneKnown == EstimatedSerial \in DOMAIN nexa_device_zone_map

ZoneOfDevice == nexa_device_zone_map[EstimatedSerial]

\* the cost the snapshot gives for the zone of the device, 0 when it has no
\* entry for the zone
CostOfZone ==
    LET entries == {i \in 1..Len(Snapshot.zones) : Snapshot.zones[i].id = ZoneOfDevice}
    IN IF entries = {} THEN 0 ELSE Snapshot.zones[CHOOSE i \in entries : \A j \in entries : i <= j].cost

DevicesInZone == Len(nexa_zone_device_map[ZoneOfDevice])

\* the devices of all zones of the zone map
MappedDevices == SumLen(nexa_zone_device_map, DOMAIN nexa_zone_device_map)

\* the call succeeded with an estimate of num / den kWh
EstimatedAt(num, den) ==
    /\ result.success
    /\ result.data.kwh.num * den = num * result.data.kwh.den

\* the estimate of a device whose zone is known is
\* (zoneCost / totalCost) * totalEnergy / devicesInZone
ZoneShare == EstimatedAt(CostOfZone * TotalEnergy, Snapshot.cost * DevicesInZone)

\* the estimate of a device whose zone is unknown is totalEnergy over the
\* number of mapped devices, when any device is mapped
EvenShare == MappedDevices > 0 => EstimatedAt(TotalEnergy, MappedDevices)

\* C25: for a snapshot with a positive total cost and a zone list that is
\* not empty, a device whose zone is known is estimated at
\* (zoneCost / totalCost) * totalEnergy / devicesInZone, and a device whose
\* zone is unknown at totalEnergy / the number of devices of all known zones
C25_Estimate ==
    (EstimatorRan /\ HasCostData) => IF ZoneKnown THEN ZoneShare ELSE EvenShare

\* the same for the devices whose zone has a positive cost in the snapshot;
\* for a zone without one the call fails
C25_EstimateOfPricedZone ==
    (EstimatorRan /\ HasCostData) =>
        IF ~ZoneKnown THEN EvenShare
        ELSE IF CostOfZone > 0 THEN ZoneShare
        ELSE ~result.success /\ result.error_message = "Zone has no cost data"

\* total cost 100, total energy 50, zone cost 40, 2 devices in the zone: the
\* estimate is 10
C25_Witness ==
    /\ EstimatorRan /\ HasCostData /\ ZoneKnown
    /\ Snapshot.cost = 100 /\ TotalEnergy = 50 /\ CostOfZone = 40 /\ DevicesInZone = 2
    /\ EstimatedAt(10, 1)

\* a device of no zone was estimated at the total energy over the 3 mapped
\* devices
C25_WitnessUnknown ==
    /\ EstimatorRan /\ HasCostData /\ ~ZoneKnown /\ MappedDevices = 3
    /\ EstimatedAt(50, 3)

\* the snapshot lists the zone of the device with a cost of 0 out of a total
\* of 100: the call failed instead of estimating 0
C25_ZeroCostZoneFails ==
    /\ EstimatorRan /\ HasCostData /\ ZoneKnown /\ Snapshot.cost = 100
    /\ \E i \in 1..Len(Snapshot.zones) : Snapshot.zones[i].id = ZoneOfDevice /\ Snapshot.zones[i].cost = 0
    /\ \E i \in 1..Len(Snapshot.zones) : Snapshot.zones[i].cost = 100
    /\ ~result.success /\ result.error_message = "Zone has no cost data"

\* the last operation asked the Nexa estimator for the energy of a device
EstimatorCalled == op.name = "get_latest_energy_stats" /\ use_nexa_ws /\ op.installation_id # None

\* the call succeeded with an estimate of 0 kWh
ZeroEstimate == result.success /\ result.data.kwh.num = 0

\* C26: the Nexa estimator fails with the no-cost-data error whenever the
\* total cost is not positive or the zone list is empty; whatever the
\* snapshot and the zone maps hold, it divides by no zero and returns no
\* successful estimate of zero that comes from missing data
C26_NoSilentZero ==
    EstimatorCalled =>
        /\ raised = None
        /\ (EstimatorRan /\ ~HasCostData) =>
              (~result.success /\ result.error_message = "No cost data to estimate energy")
        /\ result.success => result.data.kwh.den # 0
        /\ ZeroEstimate => ("energy" \in DOMAIN Snapshot /\ Snapshot["energy"] = 0)

\* all of it but the last part: an estimate of zero is returned only for a
\* snapshot whose total energy is zero or missing
C26_ExceptMissingEnergy ==
    EstimatorCalled =>
        /\ raised = None
        /\ (EstimatorRan /\ ~HasCostData) =>
              (~result.success /\ result.error_message = "No cost data to estimate energy")
        /\ result.success => result.data.kwh.den # 0
        /\ ZeroEstimate => TotalEnergy = 0

\* a snapshot with costs and without a total energy gave a successful
\* estimate of zero
C26_ZeroFromMissingEnergy ==
    /\ EstimatorCalled /\ EstimatorRan /\ HasCostData /\ "energy" \notin DOMAIN Snapshot
    /\ ZoneKnown /\ CostOfZone > 0
    /\ ZeroEstimate

\* a snapshot with a total cost of 0 gave the no-cost-data failure
C26_WitnessNoCost ==
    /\ EstimatorCalled /\ EstimatorRan /\ Snapshot.cost = 0
    /\ ~result.success /\ result.error_message = "No cost data to estimate energy"

\* with empty zone maps the estimate of a device is the total energy,
\* divided by nothing
C26_WitnessEmptyMaps ==
    /\ EstimatorCalled /\ EstimatorRan /\ HasCostData /\ DOMAIN nexa_device_zone_map = {}
    /\ EstimatedAt(50, 1)

-----------------------------------------------------------------------------
(* _ensure_valid_auth called from several threads.  The entities and the  *)
(* services run the API calls as executor jobs; every call starts with    *)
(* _ensure_valid_auth, which takes no lock.  One step per statement that  *)
(* reads or writes the shared session.                                    *)

\* a caller enters _ensure_valid_auth: it reads the clock and the token and
\* either returns True or goes on to _refresh_token
EnsureCheck(c) ==
    /\ callers[c].pc = "idle"
    /\ callers' = [callers EXCEPT ![c] = IF NeedsRefresh(Session, now)
                                         THEN [pc |-> "refresh", ok |-> None]
                                         ELSE [pc |-> "returned", ok |-> TRUE]]
    /\ UNCHANGED <<apiVars, devVars, in_flight, ws>>

\* _refresh_token builds the payload from the refresh token of the moment
\* and posts it: the request is in flight until its response arrives
RefreshPost(c) ==
    /\ callers[c].pc = "refresh"
    /\ callers' = [callers EXCEPT ![c].pc = "waiting"]
    /\ in_flight' = in_flight \cup {[caller |-> c, refresh_token |-> refresh_token]}
    /\ UNCHANGED <<apiVars, devVars, ws>>

\* the response of the caller's request arrives: on success the session is
\* overwritten with the granted token, and _ensure_valid_auth returns
RefreshAnswer(c) ==
    /\ callers[c].pc = "waiting"
    /\ \E sent \in {r \in in_flight : r.caller = c} :
          \E o \in (IF sent.refresh_token = None THEN RefreshOutcomes \ {"ok"} ELSE RefreshOutcomes) :
             LET refreshed == RefreshToken(Session, now, o)
             IN /\ auth_token' = refreshed.session.auth_token
                /\ refresh_token' = refreshed.session.refresh_token
                /\ auth_token_expire_date' = refreshed.session.auth_token_expire_date
                /\ callers' = [callers EXCEPT ![c] = [pc |-> "returned", ok |-> refreshed.ok]]
                /\ in_flight' = in_flight \ {sent}
    /\ UNCHANGED <<loginVars, credVars, cacheVars, now, opVars, devVars, ws>>

\* the caller's operation ends; the thread is free for the next job
CallerDone(c) ==
    /\ callers[c].pc = "returned"
    /\ callers' = [callers EXCEPT ![c] = IdleCaller]
    /\ UNCHANGED <<apiVars, devVars, in_flight, ws>>

\* the entry is set up (and logs in) before any entity calls the API
LoginBeforeCalls ==
    /\ \A c \in Callers : callers[c].pc = "idle"
    /\ Login

NextThreads ==
    \/ Tick
    \/ LoginBeforeCalls
    \/ \E c \in Callers : EnsureCheck(c)
    \/ \E c \in Callers : RefreshPost(c)
    \/ \E c \in Callers : RefreshAnswer(c)
    \/ \E c \in Callers : CallerDone(c)

SpecThreads == Init /\ [][NextThreads]_vars

-----------------------------------------------------------------------------
(* Token refresh under concurrent callers *)

\* the session holds a token that has expired
TokenExpired == auth_token # None /\ auth_token_expire_date # <<>> /\ auth_token_expire_date[1] < now

\* C27: when several operations run at the same time on an expired token,
\* at most one token-refresh request is in flight at any time
C27_SingleRefresh == Cardinality(in_flight) <= 1

\* what the code has instead: a caller has at most one request of its own
\* in flight, and it waits exactly while that request is
C27_OneRefreshPerCaller ==
    \A c \in Callers :
        /\ Cardinality({r \in in_flight : r.caller = c}) <= 1
        /\ (callers[c].pc = "waiting") <=> (\E r \in in_flight : r.caller = c)

\* both callers found the token of a logged-in session expired and both
\* have a refresh request in flight, carrying the same refresh token
C27_TwoRefreshesInFlight ==
    /\ login_succeeded
    /\ \A c \in Callers : callers[c].pc = "waiting"
    /\ \E token \in {refresh_token} \ {None} : in_flight = {[caller |-> c, refresh_token |-> token] : c \in Callers}

\* after one caller's refresh was granted, the other caller's request for
\* the same expiry is still in flight
C27_SecondRefreshAfterGrant ==
    /\ login_succeeded /\ ~NeedsRefresh(Session, now)
    /\ \E c \in Callers : callers[c].pc = "returned" /\ callers[c].ok = TRUE
    /\ \E c \in Callers : callers[c].pc = "waiting"

-----------------------------------------------------------------------------
(* One WebSocket RPC, step by step.  _write_via_websocket and             *)
(* _read_via_websocket start a worker thread that runs the socket         *)
(* (run_forever, with the callbacks on_open, on_message, on_error and     *)
(* on_close) while the calling thread waits on the events ws_connected    *)
(* and ws_done, closes the socket and joins the worker.                   *)

\* the data of the writes and the path of the read
WsWriteData == {[power |-> 2, status |-> "none"], [temp |-> 400], EmptyDict}
WsReadPath == <<"devices", "SN1", "data">>

\* the statuses the backend acknowledges a frame with
WsStatuses == {"ok", "permission_denied"}

\* an event of the call's history
WsEvent(e, r) == [e |-> e, r |-> r]

\* safe_close: closing is set, and ws.close() is called only when the app
\* has a socket
SafeClose(w) ==
    IF w.sock = "open"
    THEN [w EXCEPT !.closing = TRUE, !.sock = "closed", !.events = Append(@, WsEvent("close", 0))]
    ELSE [w EXCEPT !.closing = TRUE]

\* the call up to ws_thread.start(): the checks that return early, the
\* frames on_open will send
StartRpc(call, frames) ==
    /\ ws.main \in {"none", "returned"}
    /\ \E ro \in Refreshes :
          LET a == EnsureValidAuth(Session, now, ro)
              early == IF ~a.ok THEN "auth"
                       ELSE IF ~Truthy(firebase_ws_url) THEN "no_url"
                       ELSE IF call = "write" /\ Len(frames) = 1 THEN "no_fields"
                       ELSE None
          IN /\ auth_token' = a.session.auth_token
             /\ refresh_token' = a.session.refresh_token
             /\ auth_token_expire_date' = a.session.auth_token_expire_date
             /\ ws' = IF early # None
                      THEN [NoRpc EXCEPT !.call = call, !.main = "returned", !.exit = early, !.events = <<WsEvent("return", 0)>>]
                      ELSE [NoRpc EXCEPT !.call = call, !.frames = frames, !.main = "wait_connected", !.worker = "connecting"]
    /\ UNCHANGED <<loginVars, credVars, cacheVars, now, opVars, devVars, callers, in_flight>>

WsWrite == \E data \in WsWriteData : StartRpc("write", WsWriteFrames("SN1", FieldsToWrite(data), auth_token))

WsRead == StartRpc("read", WsReadFrames(WsReadPath, auth_token))

\* ws_connected.wait(timeout=5): on a timeout the call closes and returns,
\* without a join
WaitConnected ==
    /\ ws.main = "wait_connected"
    /\ ws' = IF ws.connected
             THEN [ws EXCEPT !.main = "wait_done"]
             ELSE [SafeClose(ws) EXCEPT !.main = "returned", !.exit = "connect_timeout", !.events = Append(@, WsEvent("return", 0))]
    /\ UNCHANGED <<apiVars, devVars, callers, in_flight>>

\* ws_done.wait(timeout=8), set or timed out, then safe_close(ws)
WaitDone ==
    /\ ws.main = "wait_done"
    /\ ws' = [SafeClose(ws) EXCEPT !.main = "joining"]
    /\ UNCHANGED <<apiVars, devVars, callers, in_flight>>

\* ws_thread.join(timeout=2), ended or timed out, then the return
JoinAndReturn ==
    /\ ws.main = "joining"
    /\ ws' = [ws EXCEPT !.joined = TRUE, !.main = "returned",
                        !.exit = IF ws.errors > 0 THEN "errors" ELSE "ok",
                        !.events = @ \o <<WsEvent("join", 0), WsEvent("return", 0)>>]
    /\ UNCHANGED <<apiVars, devVars, callers, in_flight>>

\* the worker: the connection opens and on_open sets ws_connected
WorkerConnects ==
    /\ ws.worker = "connecting"
    /\ ws' = [ws EXCEPT !.worker = "on_open", !.sock = "open", !.connected = TRUE, !.events = Append(@, WsEvent("open", 0))]
    /\ UNCHANGED <<apiVars, devVars, callers, in_flight>>

\* the worker: the connection fails; on_error records the error unless the
\* call is closing, on_close sets ws_done, run_forever ends
WorkerConnectFails ==
    /\ ws.worker = "connecting"
    /\ ws' = [ws EXCEPT !.worker = "ended", !.done = TRUE, !.errors = IF ws.closing THEN @ ELSE @ + 1]
    /\ UNCHANGED <<apiVars, devVars, callers, in_flight>>

\* on_open: request_id is incremented and the next frame is sent with it,
\* or ws.send raises and on_open records the error and sets ws_done
WorkerSends ==
    /\ ws.worker = "on_open"
    /\ \E raises \in {ws.sock # "open"} \cup {TRUE} :
          LET frame == ws.frames[Len(ws.sent) + 1]
              id == ws.request_id + 1
          IN ws' = IF raises
                   THEN [ws EXCEPT !.request_id = id, !.errors = @ + 1, !.done = TRUE, !.worker = "reading"]
                   ELSE [ws EXCEPT !.request_id = id, !.sent = Append(@, [frame EXCEPT !.r = id]),
                                   !.events = Append(@, WsEvent("send", id)),
                                   !.worker = IF Len(ws.sent) + 1 = Len(ws.frames) THEN "reading" ELSE "on_open"]
    /\ UNCHANGED <<apiVars, devVars, callers, in_flight>>

\* the ids of the frames that were sent and are not answered yet
Unanswered == {ws.sent[i].r : i \in 1..Len(ws.sent)} \ {e.r : e \in {x \in {ws.events[i] : i \in 1..Len(ws.events)} : x.e = "recv"}}

\* on_message: the backend answers a frame that was sent.  The write keeps
\* the status under the id of the answer and sets ws_done once it has as
\* many answers as frames sent; the read keeps only the answer that
\* carries the current request_id
WorkerReceives ==
    /\ ws.worker = "reading" /\ ws.sock = "open"
    /\ \E r \in Unanswered, s \in WsStatuses :
          LET kept == IF ws.call = "write" \/ r = ws.request_id THEN ws.results \cup {[r |-> r, s |-> s]} ELSE ws.results
          IN ws' = [ws EXCEPT !.results = kept,
                              !.events = Append(@, WsEvent("recv", r)),
                              !.done = \/ @
                                       \/ (ws.call = "write" /\ Cardinality({x.r : x \in kept}) >= Len(ws.sent))
                                       \/ (ws.call = "read" /\ r = ws.request_id)]
    /\ UNCHANGED <<apiVars, devVars, callers, in_flight>>

\* the transport fails or the backend closes: on_error records the error
\* unless the call is closing, on_close sets ws_done, run_forever ends
WorkerTransportError ==
    /\ ws.worker = "reading" /\ ws.sock = "open"
    /\ ws' = [ws EXCEPT !.worker = "ended", !.sock = "closed", !.done = TRUE, !.errors = IF ws.closing THEN @ ELSE @ + 1]
    /\ UNCHANGED <<apiVars, devVars, callers, in_flight>>

\* the socket was closed by the call: on_close sets ws_done, run_forever ends
WorkerExits ==
    /\ ws.worker = "reading" /\ ws.sock = "closed"
    /\ ws' = [ws EXCEPT !.worker = "ended", !.done = TRUE]
    /\ UNCHANGED <<apiVars, devVars, callers, in_flight>>

\* the entry logs in before any entity starts an RPC
LoginBeforeRpc ==
    /\ ws = NoRpc
    /\ Login

NextWs ==
    \/ Tick
    \/ LoginBeforeRpc
    \/ WsWrite
    \/ WsRead
    \/ WaitConnected
    \/ WaitDone
    \/ JoinAndReturn
    \/ WorkerConnects
    \/ WorkerConnectFails
    \/ WorkerSends
    \/ WorkerReceives
    \/ WorkerTransportError
    \/ WorkerExits

SpecWs == Init /\ [][NextWs]_vars

-----------------------------------------------------------------------------
(* The exits of a WebSocket RPC *)

\* the RPC has returned after it started its worker thread
RpcReturned == ws.main = "returned" /\ ws.exit \in {"connect_timeout", "errors", "ok"}

\* the call has returned and its worker thread still runs
WorkerOutlivesCall == ws.main = "returned" /\ ws.worker \notin {"none", "ended"}

\* C28: on every exit path of a WebSocket RPC (success, connect timeout,
\* response timeout, transport error) the socket has been closed and the
\* worker thread has been joined before the call returns: no connection
\* and no thread outlives the call
C28_ClosedAndJoined ==
    RpcReturned => (ws.sock # "open" /\ ws.joined /\ ~WorkerOutlivesCall)

\* on the exits other than the connect timeout the call has closed the
\* socket and has called join (with its timeout of 2 seconds) before it
\* returned
C28_ExceptConnectTimeout ==
    (RpcReturned /\ ws.exit # "connect_timeout") => (ws.sock = "closed" /\ ws.closing /\ ws.joined)

\* after a connect timeout the call has returned without a join and the
\* worker thread is still connecting
C28_ConnectTimeoutWithoutJoin ==
    /\ ws.main = "returned" /\ ws.exit = "connect_timeout"
    /\ ~ws.joined /\ ws.worker = "connecting"

\* after a connect timeout the worker has connected and has sent its frames
\* on a socket that the call, which has returned, never closes
C28_ConnectionAfterReturn ==
    /\ ws.main = "returned" /\ ws.exit = "connect_timeout"
    /\ ws.sock = "open" /\ Len(ws.sent) = Len(ws.frames)

\* a write whose frames were all acknowledged returned with the socket
\* closed and the worker ended and joined
C28_WitnessSuccess ==
    /\ ws.main = "returned" /\ ws.exit = "ok" /\ ws.call = "write"
    /\ Cardinality(ws.results) = Len(ws.frames) /\ Len(ws.frames) = 3
    /\ ws.sock = "closed" /\ ws.joined /\ ws.worker = "ended"

-----------------------------------------------------------------------------
(* The frames of a WebSocket RPC *)

\* the positions of the history at which the event e happened
EventsAt(e) == {i \in 1..Len(ws.events) : ws.events[i].e = e}

\* the auth frame is sent before any data frame
AuthFrameFirst ==
    \A i \in 1..Len(ws.sent) : (ws.sent[i].a = "auth") <=> (i = 1)

\* the request ids strictly increase from one sent frame to the next
IdsIncrease ==
    \A i \in 1..Len(ws.sent), j \in 1..Len(ws.sent) : i < j => ws.sent[i].r < ws.sent[j].r

\* a response is attributed only to the request whose id it carries: what
\* the call keeps is kept under the id of a frame that was sent and of an
\* answer that arrived, one status per id, and the read keeps only the
\* answer to its get frame
AttributedById ==
    /\ \A x \in ws.results :
          /\ \E i \in 1..Len(ws.sent) : ws.sent[i].r = x.r /\ (ws.call = "read" => ws.sent[i].a = "g")
          /\ \E i \in EventsAt("recv") : ws.events[i].r = x.r
    /\ \A x \in ws.results, y \in ws.results : x.r = y.r => x = y

\* the socket is closed after the responses are collected and before the
\* call returns
ClosedBeforeReturn ==
    /\ \A j \in EventsAt("recv"), k \in EventsAt("close") : j < k
    /\ \A j \in EventsAt("recv") \cup EventsAt("close"), i \in EventsAt("return") : j < i
    /\ ws.main = "returned" => ws.sock # "open"

\* C29: in every WebSocket RPC the auth frame is sent before any data
\* frame, the request ids strictly increase from one sent frame to the
\* next, a response is attributed only to the request whose id it carries,
\* and the socket is closed after the responses are collected and before
\* the call returns
C29_FrameOrder == AuthFrameFirst /\ IdsIncrease /\ AttributedById /\ ClosedBeforeReturn

\* all of it for the calls whose connection opened within the connect
\* timeout, and the order of the frames and the attribution for every call
C29_ExceptConnectTimeout ==
    /\ AuthFrameFirst /\ IdsIncrease /\ AttributedById
    /\ ws.exit # "connect_timeout" => ClosedBeforeReturn

\* a call that returned on the connect timeout: its connection opened
\* afterwards, its frames were sent and answered, and the socket is open
C29_ResponsesAfterReturn ==
    /\ ws.main = "returned" /\ ws.exit = "connect_timeout"
    /\ ws.sock = "open" /\ ws.results # {}
    /\ \E i \in EventsAt("return"), j \in EventsAt("recv") : i < j

\* a read that returned the answer to its get frame, request id 3, after
\* the answer to the auth frame, request id 2, was left aside
C29_WitnessRead ==
    /\ ws.main = "returned" /\ ws.exit = "ok" /\ ws.call = "read"
    /\ [i \in 1..Len(ws.sent) |-> ws.sent[i].r] = <<2, 3>>
    /\ {ws.events[i].r : i \in EventsAt("recv")} = {2, 3}
    /\ {x.r : x \in ws.results} = {3}

\* a write whose third frame could not be sent returned with the first two
\* sent under the request ids 2 and 3
C29_WitnessSendError ==
    /\ ws.main = "returned" /\ ws.exit = "errors" /\ ws.call = "write"
    /\ Len(ws.frames) = 3 /\ [i \in 1..Len(ws.sent) |-> ws.sent[i].r] = <<2, 3>>

-----------------------------------------------------------------------------
(* The zone maps after an installation fetch *)

\* the last operation fetched an installation of the Nexa backend
InstallationFetched ==
    op.name = "get_installation_by_id" /\ use_nexa_ws /\ raised = None /\ result.success

\* the zones of the installation just fetched
FetchedZones == Get(result.data, "zones", <<>>)

\* the serials of the devices of the i-th fetched zone
FetchedSerials(i) == ZoneSerials(Get(FetchedZones[i], "devices", <<>>))

\* the ids of the fetched zones, the serials of their devices
FetchedZoneIds == {FetchedZones[i].id : i \in 1..Len(FetchedZones)}
FetchedDevices == UNION {{FetchedSerials(i)[k] : k \in 1..Len(FetchedSerials(i))} : i \in 1..Len(FetchedZones)}

\* the maps hold every zone of the installation with its devices, and every
\* device with its zone
HoldsFetched ==
    \A i \in 1..Len(FetchedZones) :
        /\ FetchedZones[i].id \in DOMAIN nexa_zone_device_map
        /\ nexa_zone_device_map[FetchedZones[i].id] = FetchedSerials(i)
        /\ \A k \in 1..Len(FetchedSerials(i)) :
              /\ FetchedSerials(i)[k] \in DOMAIN nexa_device_zone_map
              /\ nexa_device_zone_map[FetchedSerials(i)[k]] = FetchedZones[i].id

\* C30: after every successful Nexa installation fetch the zone-to-devices
\* and device-to-zone maps contain exactly the zones and devices of the
\* installation just fetched: the entries of zones or devices that are no
\* longer present are removed
C30_MapsRebuilt ==
    InstallationFetched =>
        /\ HoldsFetched
        /\ DOMAIN nexa_zone_device_map = FetchedZoneIds
        /\ DOMAIN nexa_device_zone_map = FetchedDevices

\* what the code has instead: the entries of the fetched installation are
\* written over the maps, nothing is removed
C30_EntriesWritten ==
    InstallationFetched =>
        /\ HoldsFetched
        /\ FetchedZoneIds \subseteq DOMAIN nexa_zone_device_map
        /\ FetchedDevices \subseteq DOMAIN nexa_device_zone_map

\* an installation with the only zone zoneB was fetched, and the maps still
\* hold zoneA and its devices from the fetch before
C30_StaleZoneKept ==
    /\ InstallationFetched /\ FetchedZoneIds = {"zoneB"} /\ FetchedDevices = {"SN3"}
    /\ "zoneA" \in DOMAIN nexa_zone_device_map
    /\ nexa_zone_device_map["zoneA"] = <<"SN1", "SN2">>
    /\ {"SN1", "SN2"} \subseteq DOMAIN nexa_device_zone_map

\* the first fetch of a session left exactly the zones and devices of its
\* installation in the maps
C30_WitnessFirstFetch ==
    /\ InstallationFetched /\ FetchedZoneIds = {"zoneA", "zoneB"}
    /\ DOMAIN nexa_zone_device_map = {"zoneA", "zoneB"}
    /\ nexa_device_zone_map = [x \in {"SN1", "SN2", "SN3"} |-> IF x = "SN3" THEN "zoneB" ELSE "zoneA"]

-----------------------------------------------------------------------------
(* What changes the statistics snapshot and the zone maps *)

\* the statistics requests among the requests of the step's operation
StatisticsRequests == SelectSeq(requests', LAMBDA r : r.url = "NEXA_STATISTICS_URL")

\* the step runs a Nexa fetch of the energy of a device
EnergyStep == op'.name = "get_latest_energy_stats" /\ use_nexa_ws /\ op'.installation_id # None /\ calls' # calls

\* the serial the estimator of the step is asked for
EnergyStepSerial ==
    LET cached == Get(nexa_device_cache, op'.device_id, EmptyDict)
    IN IF Truthy(Get(cached, "serialNumber", None)) THEN cached.serialNumber ELSE op'.device_id

\* two results of the estimator are the same
SameResponse(a, b) ==
    /\ a.success = b.success
    /\ a.error_message = b.error_message
    /\ a.success => a.data = b.data

C31_WitnessExplicit ==
    /\ op.name = "get_nexa_energy_stats" /\ result.success /\ calls = 3
    /\ nexa_installation_energy = <<result.data>>
    /\ "energy" \notin DOMAIN result.data

-----------------------------------------------------------------------------
(* The reads of a Nexa get_device *)

\* the last operation read a device of the Nexa backend
NexaDeviceRead == op.name = "get_device" /\ use_nexa_ws /\ raised = None /\ PassedAuth

\* the serial cached for the device, None if there is none
CachedSerial == Get(Get(nexa_device_cache, op.device_id, EmptyDict), "serialNumber", None)

\* /devices/{serial}/data, /devices/{serial}, /devices/{id}/data,
\* /devices/{id}: the serial paths only when a serial is cached
PathOrder ==
    (IF Truthy(CachedSerial) THEN <<(<<"devices", CachedSerial, "data">>), (<<"devices", CachedSerial>>)>> ELSE <<>>)
    \o <<(<<"devices", op.device_id, "data">>), (<<"devices", op.device_id>>)>>

\* a read of the firmware of the device
IsFirmwareRead(req) == Len(req.body) = 2 /\ req.body[2].p[Len(req.body[2].p)] = "firmware"

\* the reads of the device's paths among the requests of the operation
PathReads == SelectSeq(requests, LAMBDA r : r.method = "WS_READ" /\ ~IsFirmwareRead(r))

\* the read was answered with a mapping
Structured(req) == req.answer \in {"dict_with_data", "dict_plain"}

\* C32: a Nexa get_device issues its reads in the order
\* /devices/{serial}/data, /devices/{serial}, /devices/{id}/data,
\* /devices/{id} (the serial paths only when a serial is cached), stops at
\* the first read that returns a mapping and issues no later path read, and
\* returns failure only if every read returned nothing structured
C32_ReadOrder ==
    NexaDeviceRead =>
        /\ Len(PathReads) \in 1..Len(PathOrder)
        /\ \A i \in 1..Len(PathReads) :
              /\ Len(PathReads[i].body) = 2 => (PathReads[i].body[2].a = "g" /\ PathReads[i].body[2].p = PathOrder[i])
              /\ Structured(PathReads[i]) => i = Len(PathReads)
        /\ result.success <=> Structured(PathReads[Len(PathReads)])
        /\ ~result.success =>
              /\ Len(PathReads) = Len(PathOrder)
              /\ result.error_message = "WebSocket read failed"

\* with a serial cached, the third path, /devices/{id}/data, answered with
\* a mapping after the two serial paths had not: three reads, success
C32_Witness ==
    /\ NexaDeviceRead /\ CachedSerial = "SN1"
    /\ Len(PathReads) = 3 /\ Structured(PathReads[3]) /\ result.success
    /\ \A i \in 1..3 : Len(PathReads[i].body) = 2
    /\ PathReads[2].body[2].p = <<"devices", "SN1">>
    /\ PathReads[3].body[2].p = <<"devices", "dev1", "data">>

\* no serial cached and no path answered with a mapping: two reads, failure
C32_WitnessFailure ==
    /\ NexaDeviceRead /\ ~Truthy(CachedSerial)
    /\ Len(PathReads) = 2 /\ ~result.success

-----------------------------------------------------------------------------
(* Device discovery on the Nexa backend *)

\* the last operation discovered the devices of a Nexa installation
DevicesDiscovered ==
    op.name = "get_installation_devices" /\ use_nexa_ws /\ raised = None /\ result.success

\* the device entries of the installation, as the zones, rooms and nested
\* sub-zones list them
ListedEntries ==
    ExtractDevicesAny(IF "zones" \in DOMAIN op.installation THEN op.installation["zones"]
                      ELSE IF "rooms" \in DOMAIN op.installation THEN op.installation["rooms"]
                      ELSE <<op.installation>>)

\* the keys of the listed entries, one per listing
ListedKeys == [i \in 1..Len(ListedEntries) |-> DeviceIdOf(ListedEntries[i])]

\* the position of the first listing of a key
FirstListing(key) == CHOOSE i \in 1..Len(ListedKeys) : ListedKeys[i] = key /\ \A j \in 1..(i - 1) : ListedKeys[j] # key

\* each key once, in the order of the first listings
OncePerKey ==
    /\ {result.data[i] : i \in 1..Len(result.data)} = {ListedKeys[i] : i \in 1..Len(ListedKeys)}
    /\ \A i \in 1..Len(result.data), j \in 1..Len(result.data) :
          i < j => (result.data[i] # result.data[j] /\ FirstListing(result.data[i]) < FirstListing(result.data[j]))

\* the cache holds the inline name and serial of the entry
CachedInline(entry) ==
    LET key == DeviceIdOf(entry)
    IN /\ key \in DOMAIN nexa_device_cache
       /\ Truthy(Get(entry, "name", None)) => nexa_device_cache[key].name = entry.name
       /\ Truthy(Get(entry, "serialNumber", None)) => nexa_device_cache[key].serialNumber = entry.serialNumber

\* C33: Nexa device discovery returns each device key at most once, in
\* first-occurrence order, however many zones, rooms or nested sub-zones
\* list it, and caches the inline name and serial of every discovered
\* device that carries them
C33_Discovery ==
    DevicesDiscovered =>
        /\ OncePerKey
        /\ \A i \in 1..Len(ListedEntries) : CachedInline(ListedEntries[i])

\* the keys are returned once each in first-occurrence order, and every
\* discovered device has an entry in the cache
C33_KeysOnceAndCached ==
    DevicesDiscovered =>
        /\ OncePerKey
        /\ \A i \in 1..Len(ListedKeys) : ListedKeys[i] \in DOMAIN nexa_device_cache

\* dev1 was discovered with its serial SN1 inline, and the cache still
\* holds the entry of an earlier discovery, without a serial
C33_SerialNotCached ==
    /\ DevicesDiscovered
    /\ \E i \in 1..Len(ListedEntries) :
          /\ DeviceIdOf(ListedEntries[i]) = "dev1"
          /\ Get(ListedEntries[i], "serialNumber", None) = "SN1"
    /\ nexa_device_cache["dev1"].serialNumber = None

\* dev1, listed by a zone and again by a room of it, is returned once,
\* before dev3
C33_WitnessNested ==
    /\ DevicesDiscovered
    /\ ListedKeys = <<"dev1", "dev3", "dev1", "dev3">>
    /\ result.data = <<"dev1", "dev3">>

-----------------------------------------------------------------------------
(* The three rules of the power normalization *)

\* the last operation parsed a payload
PayloadParsed == op.name \in {"RointeDevice", "update_data"} /\ dev_error = None /\ "data" \in DOMAIN op.device_info

\* the raw power field and the raw status of the payload parsed last
RawPower == Get(op.device_info.data, "power", B(FALSE))
RawStatus == Get(op.device_info.data, "status", S("none")).v

\* C34: the power normalization follows three ordered rules: a raw status
\* "off" gives power false whatever the power field holds; otherwise, if
\* the power field parses as an integer, power is (value = 2); otherwise
\* power is the boolean coercion of the raw field
C34_PowerRules ==
    PayloadParsed =>
        /\ RawStatus = "off" => ~dev.power
        /\ (RawStatus # "off" /\ PyInt(RawPower) # <<>>) => (dev.power <=> PyInt(RawPower)[1] = 2)
        /\ (RawStatus # "off" /\ PyInt(RawPower) = <<>>) => (dev.power <=> PyBool(RawPower))

\* rule one: status off and the integer power 2 parse to power off
C34_Witness ==
    /\ PayloadParsed /\ RawStatus = "off" /\ RawPower.t = "int" /\ RawPower.v = 2
    /\ ~dev.power

\* rule two: the string "2" parses as the integer 2, power on
C34_WitnessInteger ==
    /\ PayloadParsed /\ RawStatus = "none" /\ RawPower.t = "str" /\ RawPower.v = "2"
    /\ dev.power

\* rule three: the string "on" parses as no integer and is true, power on
C34_WitnessCoerced ==
    /\ PayloadParsed /\ RawStatus = "none" /\ RawPower.t = "str" /\ RawPower.v = "on"
    /\ dev.power

-----------------------------------------------------------------------------
(* Effective power and heating status against the HVAC action *)

\* the HVAC action at the time of the last read is not Heating: the device
\* is powered off, or its probe is at or above the effective target
ActionNotHeating == HvacAction(dev, op.day_of_week, op.hour_index) # "HEATING"

\* C35: the effective power and the heating status agree with the HVAC
\* action: whenever the HVAC action is not Heating (device powered off, or
\* probe at or above the effective target) the effective power is 0 and
\* the heating status is "idle", for every value of statusWarming
C35_AgreeWithAction ==
    /\ (op.name = "_get_effective_power" /\ ActionNotHeating) => result = 0
    /\ (op.name = "_get_heating_status" /\ ActionNotHeating) => result = "idle"

\* the effective power is 0 whenever the action is not Heating, and the
\* heating status is "idle" whenever the probe is at or above the target
C35_ExceptStatusWhenOff ==
    /\ (op.name = "_get_effective_power" /\ ActionNotHeating) => result = 0
    /\ (op.name = "_get_heating_status" /\ dev.temp_probe >= ExpectedTarget) => result = "idle"
    /\ op.name \in {"_get_effective_power", "_get_heating_status"} => (ActionNotHeating <=> CannotBeHeating)

\* the heating status of a device that is powered off, below its target
\* and reports statusWarming 2 is "heating", while its HVAC action is OFF
C35_HeatingWhenOff ==
    /\ op.name = "_get_heating_status" /\ ~dev.power /\ dev.temp_probe < ExpectedTarget
    /\ dev.status_warming = 2 /\ HvacAction(dev, op.day_of_week, op.hour_index) = "OFF"
    /\ result = "heating"

\* the effective power of a powered device at its target that reports
\* statusWarming 2 is 0
C35_WitnessPowerAtTarget ==
    /\ op.name = "_get_effective_power" /\ dev.power /\ dev.temp_probe >= ExpectedTarget
    /\ dev.status_warming = 2 /\ result = 0

\* the effective power of a heating device is its nominal power
C35_WitnessPowerHeating ==
    /\ op.name = "_get_effective_power" /\ ~ActionNotHeating
    /\ dev.status_warming = 2 /\ result = 2000

-----------------------------------------------------------------------------
(* The schedule-status sensor against get_current_schedule_mode *)

\* the last operation read the schedule-status sensor
ScheduleStatusRead == op.name = "_get_schedule_status"

\* what get_current_schedule_mode gives for the same schedule, day and hour
ModeOfTheHour == GetCurrentScheduleMode(dev.schedule, op.day_of_week, op.hour_index)

\* the sensor and the mode name the same slot
SameSlot ==
    /\ result.raised = None
    /\ result.value = "comfort" <=> ModeOfTheHour = "COMFORT"
    /\ result.value = "eco" <=> ModeOfTheHour = "ECO"
    /\ result.value \in {"off", "unknown"} <=> ModeOfTheHour = "NONE"

\* C36: for every schedule in either wire shape (list or mapping), every
\* day and every hour, the schedule-status sensor agrees with
\* get_current_schedule_mode - "comfort" iff Comfort, "eco" iff Eco, "off"
\* or "unknown" iff Unset - and it never raises
C36_SensorAgrees == ScheduleStatusRead => SameSlot

\* the two agree for an empty schedule and for a mapping that has more
\* entries than the index of the day and holds a string, or nothing, for
\* the day
C36_ExceptListsAndShortMappings ==
    (/\ ScheduleStatusRead
     /\ \/ ScheduleFalsy(dev.schedule)
        \/ /\ dev.schedule.shape = "dict"
           /\ Cardinality(DOMAIN dev.schedule.entries) > op.day_of_week
           /\ Get(dev.schedule.entries, ToString(op.day_of_week), DayStr(<<>>)).type = "str")
    => SameSlot

\* a list schedule with a Comfort hour: the mode is Comfort, the sensor
\* raises
C36_ListRaises ==
    /\ ScheduleStatusRead /\ dev.schedule.shape = "list"
    /\ ModeOfTheHour = "COMFORT" /\ result.raised = "AttributeError"

\* a mapping that holds only the day 1: the mode of day 1 is Comfort, the
\* sensor says "unknown"
C36_ShortMappingUnknown ==
    /\ ScheduleStatusRead /\ dev.schedule.shape = "dict" /\ DOMAIN dev.schedule.entries = {"1"}
    /\ op.day_of_week = 1 /\ ModeOfTheHour = "COMFORT"
    /\ result.raised = None /\ result.value = "unknown"

\* a mapping with both days: the sensor says "eco" for an Eco hour
C36_WitnessEco ==
    /\ ScheduleStatusRead /\ dev.schedule.shape = "dict" /\ DOMAIN dev.schedule.entries = {"0", "1"}
    /\ ModeOfTheHour = "ECO" /\ result.raised = None /\ result.value = "eco"

-----------------------------------------------------------------------------
(* Writing an HVAC mode and reading it back *)

\* the JSON value the backend stores for a written field: the legacy PATCH
\* carries a boolean power and a mode string, the Nexa put frames carry
\* integers; the temperatures are numbers on both
StoredValue(key, value, nexa) ==
    IF key = "power" THEN (IF nexa THEN I(value) ELSE B(value))
    ELSE IF key = "mode" THEN (IF nexa THEN I(value) ELSE S(value))
    ELSE IF key = "status" THEN S(value)
    ELSE value

\* the stored payload after the fields of one PATCH body are written
StoreBody(data, body, nexa) ==
    [k \in DOMAIN data \cup DOMAIN body |->
        IF k \in DOMAIN body THEN StoredValue(k, body[k], nexa) ELSE data[k]]

\* the stored payload after the PATCH requests of a legacy write
RECURSIVE StorePatches(_, _)
StorePatches(data, reqs) ==
    IF reqs = <<>> THEN data
    ELSE StorePatches(StoreBody(data, Head(reqs).body, FALSE), Tail(reqs))

\* the stored payload after the put frames of a Nexa write
RECURSIVE StoreFields(_, _)
StoreFields(data, fields) ==
    IF fields = <<>> THEN data
    ELSE StoreFields(StoreBody(data, [k \in {Head(fields)[1]} |-> Head(fields)[2]], TRUE), Tail(fields))

\* a successful set_device_mode on either backend, the backend storing the
\* fields it was sent, and the refresh of the device from that stored state;
\* the result is the HVAC mode the climate entity then derives; the day
\* and the hour are read only by the legacy switch to auto
WriteHvacModeAndRefresh ==
    /\ dev # NoDevice
    /\ \E nexa \in BOOLEAN, hvac_mode \in HvacModes :
       \E day_of_week \in Only(Days, ~nexa /\ hvac_mode = "auto"), hour_index \in Only(Hours, ~nexa /\ hvac_mode = "auto") :
          LET stored == IF nexa
                        THEN StoreFields(dev.raw_data, FieldsToWrite(NexaModeBody(dev, hvac_mode)))
                        ELSE StorePatches(dev.raw_data, SetDeviceModeLegacy(dev, hvac_mode, day_of_week, hour_index, now, "ok", "ok").reqs)
              updated == UpdateData(dev, DeviceInfo(stored), None, None)
          IN /\ dev' = updated.dev
             /\ dev_error' = updated.error
             /\ op' = [name |-> "set_device_mode", nexa |-> nexa, hvac_mode |-> hvac_mode,
                       day_of_week |-> day_of_week, hour_index |-> hour_index]
             /\ result' = HvacMode(updated.dev)
    /\ UNCHANGED <<sessionVars, loginVars, credVars, cacheVars, now, requests, raised, calls, threadVars>>

NextRoundTrip ==
    \/ Construct
    \/ WriteHvacModeAndRefresh

SpecRoundTrip == InitDevice /\ [][NextRoundTrip]_vars

\* an HVAC mode was written and the device refreshed from the stored state
ModeWritten == op.name = "set_device_mode"

\* C37: on each backend and for each of off, heat and auto, the HVAC mode
\* derived after a successful write of the mode and a refresh from the
\* fields the backend stored equals the mode written
C37_RoundTrip == ModeWritten => result = op.hvac_mode

\* C37, what holds: the mode reads back on the Nexa backend, and off reads
\* back on the legacy backend
C37_ExceptLegacyOn ==
    ModeWritten /\ (op.nexa \/ op.hvac_mode = "off") => result = op.hvac_mode

\* C37, what fails: heat written on the legacy backend stores the boolean
\* power true, which update_data reads as int(True) = 1, not 2, so the
\* device reads back as off
C37_LegacyHeatReadsOff ==
    /\ ModeWritten /\ ~op.nexa /\ op.hvac_mode = "heat"
    /\ dev.raw_data.power = B(TRUE) /\ dev.raw_data.mode = S("manual")
    /\ ~dev.power /\ result = "off"

\* C37, what fails as well: auto written on the legacy backend reads back
\* as off
C37_LegacyAutoReadsOff ==
    /\ ModeWritten /\ ~op.nexa /\ op.hvac_mode = "auto"
    /\ dev.raw_data.power = B(TRUE) /\ dev.mode = "auto" /\ result = "off"

\* C37: the three modes read back on the Nexa backend
C37_WitnessNexa ==
    /\ ModeWritten /\ op.nexa /\ op.hvac_mode = "heat"
    /\ dev.raw_data.power = I(2) /\ dev.raw_data.mode = I(0) /\ result = "heat"

-----------------------------------------------------------------------------
(* The acknowledgements behind a successful Nexa write *)

\* the last operation was a Nexa write that opened its WebSocket call
NexaWriteCalled ==
    NexaWrite /\ Len(WsCalls(requests)) = 1 /\ WsCalls(requests)[1].method = "WS_WRITE"

\* the frames of the WebSocket call of the last write
WrittenFrames == WsCalls(requests)[1].body

\* every put frame the write sent has the status "ok" among the results
EveryPutAcknowledged ==
    \A i \in 1..Len(WrittenFrames) :
        WrittenFrames[i].a = "p" => (i \in DOMAIN result.data /\ result.data[i] = "ok")

\* C38: a Nexa write returns success only if every put frame it sent was
\* acknowledged with the status "ok"; a put answered with an error status
\* makes the write fail
C38_SuccessMeansAcknowledged ==
    (NexaWriteCalled /\ result.success) => EveryPutAcknowledged

\* C38, what holds: a write that returns success met no connect timeout,
\* send error or transport error, and the statuses it returns are those
\* the backend answered
C38_SuccessMeansNoTransportError ==
    (NexaWriteCalled /\ result.success) =>
        /\ WsCalls(requests)[1].answer \in {"acked", "ack_rejected"} \cup LostAcks
        /\ (WsCalls(requests)[1].answer = "acked" => EveryPutAcknowledged)

\* C38, what fails: a put answered "permission_denied" is stored among the
\* results and the write returns success all the same
C38_RejectedPutSucceeds ==
    /\ NexaWriteCalled /\ result.success /\ result.error_message = None
    /\ WsCalls(requests)[1].answer = "ack_rejected"
    /\ \E i \in DOMAIN result.data : WrittenFrames[i].a = "p" /\ result.data[i] = "permission_denied"

\* C38, what fails as well: a write none of whose puts was answered within
\* the response timeout returns success
C38_UnansweredPutSucceeds ==
    /\ NexaWriteCalled /\ result.success
    /\ WsCalls(requests)[1].answer = "ack_timeout"
    /\ \E i \in 1..Len(WrittenFrames) : WrittenFrames[i].a = "p" /\ i \notin DOMAIN result.data

\* C38: a write all of whose puts were acknowledged "ok" returns success
C38_WitnessAcknowledged ==
    /\ NexaWriteCalled /\ result.success /\ WsCalls(requests)[1].answer = "acked"
    /\ Len(WrittenFrames) >= 2 /\ EveryPutAcknowledged

-----------------------------------------------------------------------------
(* Consistency of the two zone maps *)

\* the serial is listed among the devices of the zone
ListedUnder(s, z) ==
    z \in DOMAIN nexa_zone_device_map
    /\ \E k \in 1..Len(nexa_zone_device_map[z]) : nexa_zone_device_map[z][k] = s

\* the zones that list the serial
ZonesListing(s) == {z \in DOMAIN nexa_zone_device_map : ListedUnder(s, z)}

\* every serial with a zone is listed under that zone
ZoneOfListsDevice == \A s \in DOMAIN nexa_device_zone_map : ListedUnder(s, nexa_device_zone_map[s])

\* no serial is listed under two zones
OneZonePerSerial == \A s \in DOMAIN nexa_device_zone_map : Cardinality(ZonesListing(s)) <= 1

\* C39: in every reachable state of the attribution maps, after any
\* sequence of installation fetches, a serial whose zone is z is listed
\* among the devices of z, and each serial is listed under at most one zone
C39_MapsConsistent == ZoneOfListsDevice /\ OneZonePerSerial

\* C39, what holds: after a fetch the devices of the installation just
\* fetched are listed under the zone the device map gives them
C39_ConsistentForFetched ==
    InstallationFetched =>
        \A s \in FetchedDevices : s \in DOMAIN nexa_device_zone_map /\ ListedUnder(s, nexa_device_zone_map[s])

\* C39, what fails: SN3 was in zoneB; an installation whose zoneB holds only
\* SN1 was fetched; the device map still gives SN3 the zone zoneB, which no
\* longer lists it
C39_ZoneNoLongerListsDevice ==
    /\ InstallationFetched /\ "SN3" \notin FetchedDevices
    /\ "SN3" \in DOMAIN nexa_device_zone_map /\ nexa_device_zone_map["SN3"] = "zoneB"
    /\ nexa_zone_device_map["zoneB"] = <<"SN1">>

\* C39, what fails as well: SN3 moved to zoneA in an installation without
\* zoneB; the zone map lists it under both zones
C39_SerialUnderTwoZones ==
    /\ InstallationFetched /\ FetchedZoneIds = {"zoneA"}
    /\ nexa_device_zone_map["SN3"] = "zoneA"
    /\ ZonesListing("SN3") = {"zoneA", "zoneB"}

\* C39: the maps are consistent after the first fetch of a session
C39_WitnessFirstFetch ==
    /\ InstallationFetched /\ FetchedDevices = {"SN1", "SN2", "SN3"}
    /\ DOMAIN nexa_device_zone_map = {"SN1", "SN2", "SN3"}
    /\ ZoneOfListsDevice /\ OneZonePerSerial

-----------------------------------------------------------------------------
(* What a token refresh changes *)

\* the refresh requests among the given requests
RefreshRequests(reqs) == SelectSeq(reqs, LAMBDA r : r.method = "POST" /\ r.url = "AUTH_REFRESH_ENDPOINT")

\* the step is an operation that attempted a token refresh
TokenRefreshStep == calls' = calls + 1 /\ RefreshRequests(requests') # <<>>

\* the token endpoint granted a token in the step
RefreshGranted == \E i \in 1..Len(RefreshRequests(requests')) : RefreshRequests(requests')[i].answer = "ok"

C40_WitnessFailed ==
    /\ RefreshRequests(requests) # <<>> /\ RefreshRequests(requests)[1].answer = "network"
    /\ raised = None /\ ~result.success /\ result.error_message = "Invalid authentication."
    /\ auth_token # None /\ refresh_token # None /\ refresh_token = RefreshRequests(requests)[1].body.refresh_token

====
